---- MODULE Spec2Model ----
(***************************************************************************)
(* Verification model of the rport server core: the multi-client command   *)
(* and script dispatcher (server/api_middleware.go), the job store it      *)
(* writes to, and the ban lists (share/security/banlist.go).               *)
(*                                                                         *)
(* Three specifications share the variables of this module:                *)
(*   Spec      - one multi-client dispatch request, from the arrival of    *)
(*               the request to the end of its execution;                  *)
(*   SpecStore - the job store under arbitrary save_job / create_job;      *)
(*   SpecBan   - the max-bad-attempts ban list under a discrete clock.     *)
(***************************************************************************)
EXTENDS Integers, Sequences, FiniteSets, TLC

(***************************************************************************)
(* Bounds                                                                  *)
(***************************************************************************)
\* longest explicit client_ids list of a request
MaxClientIDs == 2
\* number of job ids the store specification draws its rows from
MaxStoreJid == 3
\* largest threshold, ban duration and clock value of the ban-list specification
MaxThreshold == 3
MaxBanDuration == 2
MaxTime == 4

(***************************************************************************)
(* The client registry and the client groups                               *)
(***************************************************************************)
\* the clients the registry knows, in registry order
Clients == <<"c1", "c2", "c3">>
ClientSet == {Clients[i] : i \in 1..Len(Clients)}
\* a client id the registry does not know
UnknownClient == "cx"
\* the stored client groups and the clients their params match
GroupMembers == [g \in {"g1"} |-> {"c3"}]
KnownGroups == DOMAIN GroupMembers
UnknownGroup == "gx"

\* ids: the id generated by the handler is 0, the id of the i-th child is i
HandlerJid == 0
NoMJ == -1

StatusRunning == "running"
StatusSuccessful == "successful"
StatusFailed == "failed"
StatusUnknown == "unknown"

VARIABLES
  \* ---- dispatcher ----
  registry,     \* client id -> "connected" | "disconnected"
  allowed,      \* the clients the requesting user has access to
  req,          \* the request: path, client_ids, group_ids, flags
  hpc,          \* position of the request handler
  ordered,      \* resolved targets (OrderedClients)
  groupCount,   \* groupClientsCount / clientsInGroupsCount
  cmdMap,       \* clientIDCommandMap: clients with a recorded remote script path
  pushes,       \* create_file requests sent so far, in order
  respStatus,   \* status reported to the caller, 0 while none
  multiJobs,    \* the stored MultiJob rows, by jid
  dpc,          \* position of the execution loop
  idx,          \* loop index into ordered
  wpc,          \* per target: position of its createAndRunJob call
  wok,          \* per target: the value createAndRunJob returns
  cur,          \* per target: curJob
  sentCmd,      \* per target: was run_cmd sent, and with which payload
  created,      \* per target: the job create_job was invoked with
  cstate,       \* per target: state of the command on the client
  chanState,    \* the done-channel: "none" | "open" | "closed"
  chanTable,    \* jobsDoneChannel: the MultiJob ids that have an entry
  fwd,          \* result handlers blocked sending on the done-channel
  panicked,     \* a send on a closed channel happened
  genFail,      \* the targets whose jid could not be generated
  \* ---- job store ----
  jobs,         \* the stored Job rows, by jid
  lastOp,       \* the last store operation, its argument and the rows before it
  \* ---- ban list ----
  visitors,     \* key -> [badAttempts, banTime]
  maxBadAttempts,
  banDuration,
  now,
  streak,       \* per key: bad attempts since the key was fresh, -1 when spoilt
  lastBan,      \* per key: the clock value of its last bad attempt
  run,          \* per key: bad attempts since its last successful attempt, capped
  banOp,        \* the last operation on the list, its key, and whether the key was banned
  \* ---- expiry ban list ----
  blVisitors,   \* BanList.visitors: key -> ban expiry
  blDuration,   \* BanList.banDuration
  firstAdd,     \* per key: the clock value of its first Add, -1 when never added
  lastAdd,      \* per key: the clock value of its last Add, -1 when never added
  \* ---- authentication of API requests ----
  authPc,       \* position of the request in its handler
  authReq,      \* the request: entry point, caller ip, user name, outcome of the look-up
  authRes,      \* the response status and which ban lists the request has fed
  \* ---- tunnel ACL ----
  aclPc,        \* "idle" | "parsed" | "built" | "checked"
  aclStr,       \* the ACL string, as the list of its comma-separated entries
  aclRes,       \* what ParseTunnelACL returned: [err, acl]
  aclIP,        \* the address CheckAccess was called with
  aclAccess,    \* the outcome of CheckAccess: "allow" | "deny" | "panic"
  \* ---- port distributor ----
  portsPools,   \* protocol -> the set of free ports, or NoPool
  probed,       \* protocol -> the connections its last OS probe listed, or a marker
  portOp,       \* the last operation: its protocol, result and the pools before it
  runProto,     \* the protocol of the current run of GetRandomPort calls
  runStart,     \* the pool of that protocol when the run started
  runGot,       \* the ports the run has returned, in order
  given,        \* the <<protocol, port>> GetRandomPort returned since the pools of the
                \* protocol were last refreshed
  callPc,       \* per concurrent caller: its position in GetRandomPort
  callProto,    \* per concurrent caller: its protocol
  callRes,      \* per concurrent caller: the port Pop gave it, 0 for the no-ports error
  handed,       \* the ports returned to concurrent callers, with protocol and caller
  \* ---- client sessions and their tunnels ----
  Tunnels,      \* per client session: its list of active tunnels
  tunnelIDAutoIncrement, \* per client session: the last tunnel ID generated
  issued,       \* per client session: the IDs generateNewTunnelID returned, in order
  tunLock,      \* per client session: the request holding its mutex, 0 when free
  treq,         \* per tunnel-put request: its position, parameters and answer, the ID
                \* of its tunnel, and whether an identical tunnel was active when it
                \* was answered
  \* ---- translation of list options to a query ----
  qryPc,        \* "idle" before ConvertListOptionsToQuery was called, "done" after
  qryLo,        \* the list options: filters, sorts, fields and pagination
  qryQ,         \* the query given to the call
  qryOut,       \* what the call returned: the query and the binds
  \* ---- the jobs of a MultiJob in the job store ----
  mjJobs,       \* jid -> the stored job with its multi_job_id and times
  mjGot,        \* the call of GetByMultiJobID made on the store as it is, if any: its
                \* argument and the list returned
  \* ---- the ports of the server configuration ----
  cfgUsed,      \* used_ports: a list of port expressions
  cfgExcluded,  \* excluded_ports: a list of port expressions
  cfgPc,        \* "idle", then "valid" or "fatal" after validation, "started" after NewServer
  cfgAllowed,   \* the allowed ports computed by the validation
  cfgErr,       \* the error of the validation, "" when there is none
  srvPorts,     \* the allowed ports of the port distributor of the started server
  \* ---- Server.Close ----
  clsParts,     \* the components of the server, in the order Close goes through them
  clsPc,        \* "idle", "go" while Close starts the shutdowns, "wait", "returned"
  clsNext,      \* the position in clsParts of the next shutdown to start
  clsState,     \* component -> "-" | "closing" | "ok" | "failed"
  clsErr,       \* the error kept by the group: the component that failed first, or "nil"
  clsRet,       \* what Close returned
  \* ---- UploadManager.HandleUploadRequest on the client ----
  upReq,        \* the upload request and what the handler finds for it
  upPc,         \* position of the handler: "idle", "deny", "exist", "copy", "verify",
                \* "sync", "move", "done"
  upFs,         \* the files: what is at the destination and at the temp path
  upOps,        \* the calls made on the file system so far, in order
  upResp,       \* the response: its status and its error
  \* ---- the life of a job: one send of run_cmd and the client's result ----
  jlStore,      \* the stored Job rows, by jid
  jl,           \* per job: the call site, its position, the job sent and kept, the
                \* state of the command on the client, the row create_job found, and
                \* what the caller was told
  \* ---- the client-access middleware: one request through its steps ----
  mwIn,         \* the request: which wrapClientAccessMiddleware, and what each step meets
  mwPc,         \* the position of the middleware
  mwErrs,       \* the error responses written to the ResponseWriter
  mwNext        \* the calls of next.ServeHTTP

dispatchVars == <<registry, allowed, req, hpc, ordered, groupCount, cmdMap, pushes,
                  respStatus, multiJobs, dpc, idx, wpc, wok, cur, sentCmd, created,
                  cstate, chanState, chanTable, fwd, panicked, genFail>>
storeVars == <<jobs, lastOp>>
banVars == <<visitors, maxBadAttempts, banDuration, now, streak, lastBan, run, banOp>>
expVars == <<blVisitors, blDuration, firstAdd, lastAdd>>
extVars == <<expVars>>
authVars == <<authPc, authReq, authRes>>
aclVars == <<aclPc, aclStr, aclRes, aclIP, aclAccess>>
portVars == <<portsPools, probed, portOp, runProto, runStart, runGot, given,
              callPc, callProto, callRes, handed>>
tunVars == <<Tunnels, tunnelIDAutoIncrement, issued, tunLock, treq>>
qryVars == <<qryPc, qryLo, qryQ, qryOut>>
mjVars == <<mjJobs, mjGot>>
cfgVars == <<cfgUsed, cfgExcluded, cfgPc, cfgAllowed, cfgErr, srvPorts>>
clsVars == <<clsParts, clsPc, clsNext, clsState, clsErr, clsRet>>
upVars == <<upReq, upPc, upFs, upOps, upResp>>
jlVars == <<jlStore, jl>>
mwVars == <<mwIn, mwPc, mwErrs, mwNext>>
oldVars == <<dispatchVars, storeVars, banVars, extVars, authVars, aclVars, portVars>>
moreVars == <<tunVars, qryVars, mjVars, cfgVars, clsVars, upVars, jlVars, mwVars>>
nonTunMore == <<oldVars, qryVars, mjVars, cfgVars, clsVars, upVars, jlVars, mwVars>>
nonQryMore == <<oldVars, tunVars, mjVars, cfgVars, clsVars, upVars, jlVars, mwVars>>
nonMjMore == <<oldVars, tunVars, qryVars, cfgVars, clsVars, upVars, jlVars, mwVars>>
nonCfgMore == <<oldVars, tunVars, qryVars, mjVars, clsVars, upVars, jlVars, mwVars>>
nonClsMore == <<oldVars, tunVars, qryVars, mjVars, cfgVars, upVars, jlVars, mwVars>>
nonUpMore == <<oldVars, tunVars, qryVars, mjVars, cfgVars, clsVars, jlVars, mwVars>>
nonJlMore == <<oldVars, tunVars, qryVars, mjVars, cfgVars, clsVars, upVars, mwVars>>
nonMwMore == <<oldVars, tunVars, qryVars, mjVars, cfgVars, clsVars, upVars, jlVars>>
tunOthers == <<qryVars, mjVars, cfgVars, clsVars, upVars, jlVars, mwVars>>
laterVars == <<authVars, aclVars, portVars, moreVars>>
nonAuthLater == <<aclVars, portVars, moreVars>>
nonAclLater == <<authVars, portVars, moreVars>>
nonPortLater == <<authVars, aclVars, moreVars>>
vars == <<dispatchVars, storeVars, banVars, extVars, laterVars>>

(***************************************************************************)
(* Job rows                                                                *)
(***************************************************************************)
NoJob == [jid |-> -2]

CmdOf(c) ==
  \* command, ok := clientIDCommandMap[client.ID]; if !ok { command = job.Command }
  IF c \in cmdMap THEN [kind |-> "path", client |-> c]
  ELSE [kind |-> "cmd", client |-> "-"]

\* a Job as createAndRunJob / createAndRunJobWS builds it before the send
NewJob(jid, client, mjid, isScript, command) ==
  [jid |-> jid, clientID |-> client, multiJobID |-> mjid, status |-> "",
   finishedAt |-> FALSE, error |-> FALSE, pid |-> FALSE, result |-> FALSE,
   isScript |-> isScript, command |-> command]

\* the send succeeded: fields received in the response
JobAccepted(j) == [j EXCEPT !.pid = TRUE, !.status = StatusRunning]

\* the send failed: fields that mark the job as failed
JobSendFailed(j) == [j EXCEPT !.status = StatusFailed, !.finishedAt = TRUE, !.error = TRUE]

\* the terminal Job a client streams back in cmd_result
JobResult(j, st) ==
  [j EXCEPT !.status = st, !.finishedAt = TRUE, !.pid = TRUE, !.result = TRUE,
            !.error = (st = StatusFailed)]

(***************************************************************************)
(* Job store (the sqlite provider behind JobProvider)                      *)
(***************************************************************************)
\* save_job as it would be if it never replaced a stored row
SaveJob_InsertOnly(s, j) ==
  [k \in (DOMAIN s) \cup {j.jid} |-> IF k \in DOMAIN s THEN s[k] ELSE j]

\* save_job: create or update, keyed by jid
SaveJob(s, j) ==
  [k \in (DOMAIN s) \cup {j.jid} |-> IF k = j.jid THEN j ELSE s[k]]

\* create_job as it would be if it replaced a stored row
CreateJob_Replace(s, j) ==
  [k \in (DOMAIN s) \cup {j.jid} |-> IF k = j.jid THEN j ELSE s[k]]

\* create_job: create if absent, else do nothing and return nil
CreateJob(s, j) ==
  IF j.jid \in DOMAIN s THEN s ELSE SaveJob(s, j)

\* get_by_jid: the row with that jid, nil when there is none
GetByJID(s, clientID, jid) ==
  IF jid \in DOMAIN s THEN s[jid] ELSE NoJob

\* the jids listed for a client
GetSummariesByClientID(s, clientID) ==
  {k \in DOMAIN s : s[k].clientID = clientID}

\* the rows of a MultiJob
GetByMultiJobID(s, mjid) ==
  {s[k] : k \in {x \in DOMAIN s : s[x].multiJobID = mjid}}

(***************************************************************************)
(* Target resolution                                                       *)
(***************************************************************************)
\* clientGroupProvider.Get for every requested group, in order
RECURSIVE ResolveGroups(_, _, _)
ResolveGroups(groupIDs, i, errAt) ==
  IF i > Len(groupIDs) THEN 0
  ELSE IF i = errAt THEN 500
  ELSE IF groupIDs[i] \notin KnownGroups THEN 400
  ELSE ResolveGroups(groupIDs, i + 1, errAt)

\* the active clients that belong to one of the groups, each once, in registry order
GetActiveByGroups(groupIDs) ==
  LET gs == {groupIDs[i] : i \in 1..Len(groupIDs)} \cap KnownGroups
  IN SelectSeq(Clients, LAMBDA c : registry[c] = "connected" /\ \E g \in gs : c \in GroupMembers[g])

\* ResolveExplicit as it would be without the check of DisconnectedAt
RECURSIVE ResolveExplicit_SkipDisconnected(_, _, _, _)
ResolveExplicit_SkipDisconnected(clientIDs, i, acc, errAt) ==
  IF i > Len(clientIDs) THEN [status |-> 0, ordered |-> acc]
  ELSE IF i = errAt THEN [status |-> 500, ordered |-> acc]
  ELSE IF clientIDs[i] \notin DOMAIN registry THEN [status |-> 404, ordered |-> acc]
  ELSE ResolveExplicit_SkipDisconnected(clientIDs, i + 1, Append(acc, clientIDs[i]), errAt)

\* the loop over the explicit client ids
RECURSIVE ResolveExplicit(_, _, _, _)
ResolveExplicit(clientIDs, i, acc, errAt) ==
  IF i > Len(clientIDs) THEN [status |-> 0, ordered |-> acc]
  ELSE IF i = errAt THEN [status |-> 500, ordered |-> acc]
  ELSE IF clientIDs[i] \notin DOMAIN registry THEN [status |-> 404, ordered |-> acc]
  ELSE IF registry[clientIDs[i]] # "connected" THEN [status |-> 400, ordered |-> acc]
  ELSE ResolveExplicit(clientIDs, i + 1, Append(acc, clientIDs[i]), errAt)

\* the loop that appends the group clients not used yet
RECURSIVE AppendGroupClients(_, _, _, _)
AppendGroupClients(groupClients, i, acc, used) ==
  IF i > Len(groupClients) THEN acc
  ELSE IF groupClients[i] \notin used
       THEN AppendGroupClients(groupClients, i + 1, Append(acc, groupClients[i]),
                               used \cup {groupClients[i]})
       ELSE AppendGroupClients(groupClients, i + 1, acc, used)

\* getOrderedClients; groupErrAt / clientErrAt: the look-up at which the provider fails (0: none)
GetOrderedClients(clientIDs, groupIDs, groupErrAt, clientErrAt) ==
  LET gst == ResolveGroups(groupIDs, 1, groupErrAt)
      groupClients == GetActiveByGroups(groupIDs)
      ex == ResolveExplicit(clientIDs, 1, <<>>, clientErrAt)
      usedClientIDs == {clientIDs[i] : i \in 1..Len(clientIDs)}
  IN IF gst # 0 THEN [status |-> gst, ordered |-> <<>>, groupCount |-> 0]
     ELSE IF ex.status # 0 THEN [status |-> ex.status, ordered |-> ex.ordered, groupCount |-> 0]
     ELSE [status |-> 0,
           ordered |-> AppendGroupClients(groupClients, 1, ex.ordered, usedClientIDs),
           groupCount |-> Len(groupClients)]

\* CheckClientsAccess: the user must have access to every client
CheckClientsAccess(cs) == \A i \in 1..Len(cs) : cs[i] \in allowed

(***************************************************************************)
(* The request handlers                                                    *)
(***************************************************************************)
Paths == {"rest_cmd", "ws_cmd", "rest_script", "ws_script"}
IsWS == req.path \in {"ws_cmd", "ws_script"}
IsScriptPath == req.path \in {"rest_script", "ws_script"}
N == Len(ordered)

\* by default abortOnErr is true
AbortOnErr == IF req.abortOnError = "nil" THEN TRUE ELSE req.abortOnError = "true"

\* the flag set by the handler tests only
insecureForTests == FALSE

\* the handler's multi-client branch (the REST handlers have no other)
IsMulti == IF IsWS THEN Len(req.clientIDs) > 1 \/ groupCount > 0 ELSE TRUE

\* the MultiJob the handler builds; the REST handlers leave IsScript unset
NewMultiJob ==
  [jid |-> HandlerJid, clientIDs |-> req.clientIDs, groupIDs |-> req.groupIDs,
   concurrent |-> req.concurrent, abortOnErr |-> AbortOnErr,
   isScript |-> IF IsWS THEN IsScriptPath ELSE FALSE]

Reject(status) ==
  /\ hpc' = "rejected"
  /\ respStatus' = status

execVars == <<dpc, idx, wpc, wok, cur, sentCmd, created, cstate, chanState, chanTable,
              fwd, panicked, genFail, jobs>>

\* getOrderedClients, called by handlePostMultiClientCommand and handleCommandsWS,
\* and by createScriptOnMultipleClients before the first script push
HandleResolve ==
  /\ hpc = "recv"
  /\ \E ge \in 0..Len(req.groupIDs), ce \in 0..Len(req.clientIDs) :
       LET r == GetOrderedClients(req.clientIDs, req.groupIDs, ge, ce) IN
       IF r.status # 0
       THEN Reject(r.status) /\ UNCHANGED <<ordered, groupCount, wpc, wok, cur, sentCmd, created, cstate>>
       ELSE IF IsScriptPath /\ Len(r.ordered) = 0
       THEN Reject(500) /\ UNCHANGED <<ordered, groupCount, wpc, wok, cur, sentCmd, created, cstate>>
       ELSE /\ ordered' = r.ordered
            /\ groupCount' = r.groupCount
            /\ hpc' = IF IsScriptPath THEN "push" ELSE "validate"
            /\ wpc' = [i \in 1..Len(r.ordered) |-> "idle"]
            /\ wok' = [i \in 1..Len(r.ordered) |-> FALSE]
            /\ cur' = [i \in 1..Len(r.ordered) |-> NoJob]
            /\ sentCmd' = [i \in 1..Len(r.ordered) |-> NoJob]
            /\ created' = [i \in 1..Len(r.ordered) |-> NoJob]
            /\ cstate' = [i \in 1..Len(r.ordered) |-> "none"]
            /\ UNCHANGED respStatus
  /\ UNCHANGED <<registry, allowed, req, cmdMap, pushes, multiJobs, dpc, idx, chanState,
                 chanTable, fwd, panicked, genFail, jobs>>

\* createScriptOnMultipleClients: one CreateScriptOnClient call of its loop
PushScript ==
  /\ hpc = "push"
  /\ Len(pushes) < N
  /\ LET c == ordered[Len(pushes) + 1] IN
     /\ pushes' = Append(pushes, c)
     /\ \E ok \in BOOLEAN :
          IF ok
          THEN /\ cmdMap' = cmdMap \cup {c}
               /\ hpc' = IF Len(pushes) + 1 = N THEN "validate" ELSE "push"
               /\ UNCHANGED respStatus
          ELSE Reject(500) /\ UNCHANGED cmdMap
  /\ UNCHANGED <<registry, allowed, req, ordered, groupCount, multiJobs>>
  /\ UNCHANGED execVars

\* the checks on the number of targets
HandleValidate ==
  /\ hpc = "validate"
  /\ IF Len(req.groupIDs) > 0 /\ groupCount = 0 /\ Len(req.clientIDs) = 0
     THEN Reject(400)
     ELSE IF Len(req.clientIDs) < (IF IsWS THEN 1 ELSE 2) /\ groupCount = 0
     THEN Reject(400)
     ELSE hpc' = "auth" /\ UNCHANGED respStatus
  /\ UNCHANGED <<registry, allowed, req, ordered, groupCount, cmdMap, pushes, multiJobs>>
  /\ UNCHANGED execVars

\* getUserModelForAuth, then CheckClientsAccess
HandleAuthorize ==
  /\ hpc = "auth"
  /\ \E userErr \in BOOLEAN :
       IF userErr THEN Reject(500)
       ELSE IF ~CheckClientsAccess(ordered) THEN Reject(403)
       ELSE hpc' = "create" /\ UNCHANGED respStatus
  /\ UNCHANGED <<registry, allowed, req, ordered, groupCount, cmdMap, pushes, multiJobs>>
  /\ UNCHANGED execVars

\* HandleCreateMultiJob as it would be if the error of SaveMultiJob were ignored
HandleCreateMultiJob_IgnoreSaveErr ==
  /\ hpc = "create"
  /\ \E genOk \in BOOLEAN, saveOk \in BOOLEAN :
       IF ~genOk THEN Reject(500) /\ UNCHANGED <<multiJobs, dpc>>
       ELSE IF ~IsMulti
       THEN /\ hpc' = "accepted"
            /\ dpc' = "single"
            /\ UNCHANGED <<multiJobs, respStatus>>
       ELSE /\ multiJobs' = IF saveOk THEN [k \in {HandlerJid} |-> NewMultiJob] ELSE multiJobs
            /\ hpc' = "accepted"
            /\ respStatus' = 200
            /\ dpc' = "start"
  /\ UNCHANGED <<registry, allowed, req, ordered, groupCount, cmdMap, pushes>>
  /\ UNCHANGED <<idx, wpc, wok, cur, sentCmd, created, cstate, chanState, chanTable,
                 fwd, panicked, genFail, jobs>>

\* generateNewJobID, SaveMultiJob, the response, and the start of the execution
HandleCreateMultiJob ==
  /\ hpc = "create"
  /\ \E genOk \in BOOLEAN, saveOk \in BOOLEAN :
       IF ~genOk THEN Reject(500) /\ UNCHANGED <<multiJobs, dpc>>
       ELSE IF ~IsMulti
       THEN /\ hpc' = "accepted"
            /\ dpc' = "single"
            /\ UNCHANGED <<multiJobs, respStatus>>
       ELSE IF ~saveOk THEN Reject(500) /\ UNCHANGED <<multiJobs, dpc>>
       ELSE /\ multiJobs' = [k \in {HandlerJid} |-> NewMultiJob]
            /\ hpc' = "accepted"
            /\ respStatus' = 200
            /\ dpc' = "start"
  /\ UNCHANGED <<registry, allowed, req, ordered, groupCount, cmdMap, pushes>>
  /\ UNCHANGED <<idx, wpc, wok, cur, sentCmd, created, cstate, chanState, chanTable,
                 fwd, panicked, genFail, jobs>>

(***************************************************************************)
(* Execution: executeMultiClientJob (REST) and the loop of                 *)
(* handleCommandsExecutionWS (WebSocket)                                   *)
(***************************************************************************)
handlerVars == <<registry, allowed, req, hpc, ordered, groupCount, cmdMap, pushes,
                 respStatus, multiJobs>>

\* the MultiJob object the loop reads its flags from
Concurrent == NewMultiJob.concurrent
JobAbortOnErr == NewMultiJob.abortOnErr

\* the jid and the multi_job_id of the child for target i
JidOf(i) == IF dpc \in {"single", "callsingle"} THEN HandlerJid ELSE i
MultiJobIDOf(i) == IF dpc \in {"single", "callsingle"} THEN NoMJ ELSE HandlerJid

\* for sequential execution - create a channel to get the job result
ExecStart ==
  /\ dpc = "start"
  /\ IF ~Concurrent
     THEN chanState' = "open" /\ chanTable' = chanTable \cup {HandlerJid}
     ELSE UNCHANGED <<chanState, chanTable>>
  /\ dpc' = "loop"
  /\ idx' = 1
  /\ UNCHANGED handlerVars
  /\ UNCHANGED <<wpc, wok, cur, sentCmd, created, cstate, fwd, panicked, genFail, jobs>>

\* one iteration of the loop over the targets: start createAndRunJob for target idx,
\* as a goroutine (concurrent) or as a call (sequential).  The child's jid is generated
\* by the WebSocket loop itself, which returns when that fails, and by createAndRunJob
\* on the REST path, which then returns false without sending anything.
LoopStep ==
  /\ dpc = "loop"
  /\ idx <= N
  /\ \E genOk \in BOOLEAN :
       IF IsWS /\ ~genOk
       THEN dpc' = "end" /\ genFail' = genFail \cup {idx} /\ UNCHANGED <<idx, wpc, wok>>
       ELSE /\ genFail' = IF genOk THEN genFail ELSE genFail \cup {idx}
            /\ wpc' = [wpc EXCEPT ![idx] = IF genOk THEN "send" ELSE "done"]
            /\ wok' = [wok EXCEPT ![idx] = FALSE]
            /\ IF Concurrent
               THEN idx' = idx + 1 /\ UNCHANGED dpc
               ELSE dpc' = "call" /\ UNCHANGED idx
  /\ UNCHANGED handlerVars
  /\ UNCHANGED <<cur, sentCmd, created, cstate, chanState, chanTable, fwd, panicked, jobs>>

\* the loop has run over all targets
LoopEnd ==
  /\ dpc = "loop"
  /\ idx > N
  /\ dpc' = IF IsWS THEN "uiwait" ELSE "end"
  /\ UNCHANGED handlerVars
  /\ UNCHANGED <<idx, wpc, wok, cur, sentCmd, created, cstate, chanState, chanTable, fwd,
                 panicked, genFail, jobs>>

\* RunJobSend as it would be if a failed send were never persisted (the rule of the
\* single-client job applied to the children of a MultiJob)
RunJobSend_DropFailed(i) ==
  /\ wpc[i] = "send"
  /\ LET isScript == IF IsWS THEN IsScriptPath ELSE NewMultiJob.isScript
         job == NewJob(JidOf(i), ordered[i], MultiJobIDOf(i), isScript, CmdOf(ordered[i]))
     IN /\ sentCmd' = [sentCmd EXCEPT ![i] = job]
        /\ \E accepted \in BOOLEAN :
             IF accepted
             THEN /\ cur' = [cur EXCEPT ![i] = JobAccepted(job)]
                  /\ cstate' = [cstate EXCEPT ![i] = "running"]
                  /\ wok' = [wok EXCEPT ![i] = TRUE]
                  /\ wpc' = [wpc EXCEPT ![i] = "create"]
             ELSE /\ cur' = [cur EXCEPT ![i] = JobSendFailed(job)]
                  /\ wok' = [wok EXCEPT ![i] = FALSE]
                  /\ wpc' = [wpc EXCEPT ![i] = "done"]
                  /\ UNCHANGED cstate
  /\ UNCHANGED handlerVars
  /\ UNCHANGED <<dpc, idx, created, chanState, chanTable, fwd, panicked, genFail, jobs>>

\* createAndRunJob / createAndRunJobWS: send run_cmd to the client and set the
\* job's fields from the outcome
RunJobSend(i) ==
  /\ wpc[i] = "send"
  /\ LET isScript == IF IsWS THEN IsScriptPath ELSE NewMultiJob.isScript
         job == NewJob(JidOf(i), ordered[i], MultiJobIDOf(i), isScript, CmdOf(ordered[i]))
     IN /\ sentCmd' = [sentCmd EXCEPT ![i] = job]
        /\ \E accepted \in BOOLEAN :
             IF accepted
             THEN /\ cur' = [cur EXCEPT ![i] = JobAccepted(job)]
                  /\ cstate' = [cstate EXCEPT ![i] = "running"]
                  /\ wok' = [wok EXCEPT ![i] = TRUE]
                  /\ wpc' = [wpc EXCEPT ![i] = "create"]
             ELSE /\ cur' = [cur EXCEPT ![i] = JobSendFailed(job)]
                  /\ wok' = [wok EXCEPT ![i] = FALSE]
                  \* do not save the failed job if it's a single-client job
                  /\ wpc' = [wpc EXCEPT ![i] = IF IsWS /\ job.multiJobID = NoMJ
                                               THEN "done" ELSE "create"]
                  /\ UNCHANGED cstate
  /\ UNCHANGED handlerVars
  /\ UNCHANGED <<dpc, idx, created, chanState, chanTable, fwd, panicked, genFail, jobs>>

\* createAndRunJob / createAndRunJobWS: CreateJob
RunJobCreate(i) ==
  /\ wpc[i] = "create"
  /\ created' = [created EXCEPT ![i] = cur[i]]
  /\ jobs' = CreateJob(jobs, cur[i])
  /\ wpc' = [wpc EXCEPT ![i] = "done"]
  /\ UNCHANGED handlerVars
  /\ UNCHANGED <<dpc, idx, wok, cur, sentCmd, cstate, chanState, chanTable, fwd, panicked, genFail>>

\* LoopReturn as it would be if the loop went on without waiting for the result
LoopReturn_NoWait ==
  /\ dpc = "call"
  /\ wpc[idx] = "done"
  /\ IF ~wok[idx] /\ JobAbortOnErr
     THEN dpc' = "end" /\ UNCHANGED idx
     ELSE dpc' = "loop" /\ idx' = idx + 1
  /\ UNCHANGED handlerVars
  /\ UNCHANGED <<wpc, wok, cur, sentCmd, created, cstate, chanState, chanTable, fwd,
                 panicked, genFail, jobs>>

\* sequential: createAndRunJob returned
LoopReturn ==
  /\ dpc = "call"
  /\ wpc[idx] = "done"
  /\ IF ~wok[idx]
     THEN IF JobAbortOnErr
          THEN dpc' = "end" /\ UNCHANGED idx
          ELSE dpc' = "loop" /\ idx' = idx + 1
     ELSE IF ~IsWS /\ insecureForTests
          THEN dpc' = "loop" /\ idx' = idx + 1
          ELSE dpc' = "wait" /\ UNCHANGED idx
  /\ UNCHANGED handlerVars
  /\ UNCHANGED <<wpc, wok, cur, sentCmd, created, cstate, chanState, chanTable, fwd,
                 panicked, genFail, jobs>>

\* LoopReceive as it would be if the loop did not look at the status of the result
LoopReceive_IgnoreFailed ==
  /\ dpc = "wait"
  /\ \E f \in fwd :
       /\ fwd' = fwd \ {f}
       /\ dpc' = "loop" /\ idx' = idx + 1
  /\ UNCHANGED handlerVars
  /\ UNCHANGED <<wpc, wok, cur, sentCmd, created, cstate, chanState, chanTable, panicked, genFail, jobs>>

\* sequential: jobResult := <-curJobDoneChannel
LoopReceive ==
  /\ dpc = "wait"
  /\ \E f \in fwd :
       /\ fwd' = fwd \ {f}
       /\ IF JobAbortOnErr /\ f.status = StatusFailed
          THEN dpc' = "end" /\ UNCHANGED idx
          ELSE dpc' = "loop" /\ idx' = idx + 1
  /\ UNCHANGED handlerVars
  /\ UNCHANGED <<wpc, wok, cur, sentCmd, created, cstate, chanState, chanTable, panicked, genFail, jobs>>

\* WebSocket, single client: createAndRunJobWS without a MultiJob
SingleStart ==
  /\ dpc = "single"
  /\ wpc' = [wpc EXCEPT ![1] = "send"]
  /\ dpc' = "callsingle"
  /\ UNCHANGED handlerVars
  /\ UNCHANGED <<idx, wok, cur, sentCmd, created, cstate, chanState, chanTable, fwd,
                 panicked, genFail, jobs>>

SingleReturn ==
  /\ dpc = "callsingle"
  /\ wpc[1] = "done"
  /\ dpc' = "uiwait"
  /\ UNCHANGED handlerVars
  /\ UNCHANGED <<idx, wpc, wok, cur, sentCmd, created, cstate, chanState, chanTable, fwd,
                 panicked, genFail, jobs>>

\* WebSocket: ReadMessage returns (the UI closed the connection or sent a message)
UIClose ==
  /\ dpc = "uiwait"
  /\ dpc' = "end"
  /\ UNCHANGED handlerVars
  /\ UNCHANGED <<idx, wpc, wok, cur, sentCmd, created, cstate, chanState, chanTable, fwd,
                 panicked, genFail, jobs>>

\* the deferred function, its first statement: close(curJobDoneChannel)
ExecEnd ==
  /\ dpc = "end"
  /\ IF chanState = "open"
     THEN /\ chanState' = "closed"
          /\ panicked' = (panicked \/ fwd # {})
          /\ dpc' = "del"
     ELSE /\ dpc' = "done"
          /\ UNCHANGED <<chanState, panicked>>
  /\ UNCHANGED handlerVars
  /\ UNCHANGED <<idx, wpc, wok, cur, sentCmd, created, cstate, chanTable, fwd, genFail, jobs>>

\* the deferred function, its second statement: al.jobsDoneChannel.Del(job.JID)
ExecDel ==
  /\ dpc = "del"
  /\ chanTable' = chanTable \ {HandlerJid}
  /\ dpc' = "done"
  /\ UNCHANGED handlerVars
  /\ UNCHANGED <<idx, wpc, wok, cur, sentCmd, created, cstate, chanState, fwd, panicked,
                 genFail, jobs>>

(***************************************************************************)
(* The client and the result handler of the client listener                *)
(***************************************************************************)
\* a client that accepted run_cmd streams back cmd_result; the handler saves the
\* terminal Job and forwards it on the done-channel of its MultiJob, if there is one
CmdResult(i) ==
  /\ cstate[i] = "running"
  /\ \E st \in {StatusSuccessful, StatusFailed} :
       LET job == JobResult(sentCmd[i], st) IN
       /\ jobs' = SaveJob(jobs, job)
       /\ fwd' = IF job.multiJobID # NoMJ /\ job.multiJobID \in chanTable
                    /\ chanState = "open"
                 THEN fwd \cup {[idx |-> i, status |-> st]}
                 ELSE fwd
       \* a send on the channel the table returns panics when the channel is closed
       /\ panicked' = (panicked \/ (job.multiJobID # NoMJ /\ job.multiJobID \in chanTable
                                      /\ chanState = "closed"))
  /\ cstate' = [cstate EXCEPT ![i] = "reported"]
  /\ UNCHANGED handlerVars
  /\ UNCHANGED <<dpc, idx, wpc, wok, cur, sentCmd, created, chanState, chanTable, genFail>>

(***************************************************************************)
(* Specification of the dispatcher                                         *)
(***************************************************************************)
EmptyStore == [k \in {} |-> NoJob]

\* sequences over S of length at most n
SeqsUpTo(S, n) == UNION {[1..k -> S] : k \in 0..n}

\* the registry and the user's access: every client connected and accessible, or one
\* client disconnected, or one client outside the user's groups
Scenarios ==
  {[registry |-> [c \in ClientSet |-> IF c = d THEN "disconnected" ELSE "connected"],
    allowed |-> ClientSet] : d \in {"-", "c1", "c3"}}
  \cup
  {[registry |-> [c \in ClientSet |-> "connected"], allowed |-> ClientSet \ {f}] :
     f \in {"c2", "c3"}}

Requests ==
  [path : Paths,
   clientIDs : SeqsUpTo(ClientSet \cup {UnknownClient}, MaxClientIDs),
   groupIDs : {<<>>, <<"g1">>, <<UnknownGroup>>},
   concurrent : BOOLEAN,
   abortOnError : {"nil", "false"}]

StoreIdle == jobs = EmptyStore /\ lastOp = [op |-> "none"]

Keys == {"k1", "k2"}

BanIdle ==
  /\ visitors = [k \in {} |-> 0]
  /\ maxBadAttempts = 1
  /\ banDuration = 1
  /\ now = 0
  /\ streak = [k \in Keys |-> 0]
  /\ lastBan = [k \in Keys |-> 0]
  /\ run = [k \in Keys |-> 0]
  /\ banOp = [op |-> "none", key |-> "-", wasBanned |-> FALSE]

ExpIdle ==
  /\ blVisitors = [k \in {} |-> 0]
  /\ blDuration = 1
  /\ firstAdd = [k \in Keys |-> -1]
  /\ lastAdd = [k \in Keys |-> -1]

AuthIdle ==
  /\ authPc = "idle"
  /\ authReq = [entry |-> "-"]
  /\ authRes = [status |-> 0, ipFed |-> FALSE, userFed |-> FALSE]

AclIdle ==
  /\ aclPc = "idle"
  /\ aclStr = <<>>
  /\ aclRes = [err |-> FALSE, acl |-> [nil |-> TRUE]]
  /\ aclIP = <<>>
  /\ aclAccess = "-"

Callers == {1, 2}

PortIdle ==
  /\ portsPools = [p \in {} |-> {}]
  /\ probed = [p \in {} |-> {}]
  /\ portOp = [op |-> "none"]
  /\ runProto = "none"
  /\ runStart = {}
  /\ runGot = <<>>
  /\ given = {}
  /\ callPc = [c \in Callers |-> "idle"]
  /\ callProto = [c \in Callers |-> "-"]
  /\ callRes = [c \in Callers |-> -1]
  /\ handed = {}

TunClients == {"s1", "s2"}
MaxPutRequests == 2
PutRequests == 1..MaxPutRequests

\* a tunnel-put request that has not arrived
NoPut ==
  [pc |-> "idle", client |-> "-", local |-> 0, remote |-> "-", acl |-> "-",
   port |-> 0, resp |-> "-", tid |-> 0, dup |-> FALSE]

TunIdle ==
  /\ Tunnels = [c \in TunClients |-> <<>>]
  /\ tunnelIDAutoIncrement = [c \in TunClients |-> 0]
  /\ issued = [c \in TunClients |-> <<>>]
  /\ tunLock = [c \in TunClients |-> 0]
  /\ treq = [r \in PutRequests |-> NoPut]

NoListOptions == [filters |-> <<>>, sorts |-> <<>>, fields |-> <<>>, pagination |-> <<>>]

QryIdle ==
  /\ qryPc = "idle"
  /\ qryLo = NoListOptions
  /\ qryQ = <<>>
  /\ qryOut = [q |-> <<>>, params |-> <<>>]

MjIdle ==
  /\ mjJobs = [k \in {} |-> 0]
  /\ mjGot = [mjid |-> "-", jobs |-> <<>>]

CfgIdle ==
  /\ cfgUsed = <<>>
  /\ cfgExcluded = <<>>
  /\ cfgPc = "idle"
  /\ cfgAllowed = {}
  /\ cfgErr = ""
  /\ srvPorts = {}

ClsIdle ==
  /\ clsParts = <<>>
  /\ clsPc = "idle"
  /\ clsNext = 1
  /\ clsState = [c \in {} |-> "-"]
  /\ clsErr = "nil"
  /\ clsRet = "-"

NoUpload == [deny |-> FALSE, force |-> FALSE, sync |-> FALSE, md5ok |-> FALSE,
             changed |-> FALSE, before |-> "-"]

UpIdle ==
  /\ upReq = NoUpload
  /\ upPc = "idle"
  /\ upFs = [dest |-> "none", temp |-> "none"]
  /\ upOps = <<>>
  /\ upResp = [status |-> "-", err |-> "-"]

\* create_job was not called yet
NotCalled == [jid |-> -3]

NoLife == [path |-> "-", pc |-> "idle", sent |-> NoJob, cur |-> NoJob, client |-> "none",
           found |-> NotCalled, resp |-> 0, ret |-> "-"]

JlIdle ==
  /\ jlStore = [k \in {} |-> NoJob]
  /\ jl = [s \in {} |-> NoLife]

NoMwRequest == [def |-> "-", hasID |-> FALSE, user |-> "-", groupsErr |-> FALSE,
                accessErr |-> FALSE]

MwIdle ==
  /\ mwIn = NoMwRequest
  /\ mwPc = "idle"
  /\ mwErrs = 0
  /\ mwNext = 0

MoreIdle == TunIdle /\ QryIdle /\ MjIdle /\ CfgIdle /\ ClsIdle /\ UpIdle /\ JlIdle /\ MwIdle
MoreIdleButTun == QryIdle /\ MjIdle /\ CfgIdle /\ ClsIdle /\ UpIdle /\ JlIdle /\ MwIdle
MoreIdleButQry == TunIdle /\ MjIdle /\ CfgIdle /\ ClsIdle /\ UpIdle /\ JlIdle /\ MwIdle
MoreIdleButMj == TunIdle /\ QryIdle /\ CfgIdle /\ ClsIdle /\ UpIdle /\ JlIdle /\ MwIdle
MoreIdleButCfg == TunIdle /\ QryIdle /\ MjIdle /\ ClsIdle /\ UpIdle /\ JlIdle /\ MwIdle
MoreIdleButCls == TunIdle /\ QryIdle /\ MjIdle /\ CfgIdle /\ UpIdle /\ JlIdle /\ MwIdle
MoreIdleButUp == TunIdle /\ QryIdle /\ MjIdle /\ CfgIdle /\ ClsIdle /\ JlIdle /\ MwIdle
MoreIdleButJl == TunIdle /\ QryIdle /\ MjIdle /\ CfgIdle /\ ClsIdle /\ UpIdle /\ MwIdle
MoreIdleButMw == TunIdle /\ QryIdle /\ MjIdle /\ CfgIdle /\ ClsIdle /\ UpIdle /\ JlIdle

ExtIdle == ExpIdle /\ AuthIdle /\ AclIdle /\ PortIdle /\ MoreIdle

DispatchIdle ==
  /\ hpc = "recv"
  /\ ordered = <<>>
  /\ groupCount = 0
  /\ cmdMap = {}
  /\ pushes = <<>>
  /\ respStatus = 0
  /\ multiJobs = [k \in {} |-> 0]
  /\ dpc = "none"
  /\ idx = 0
  /\ wpc = <<>>
  /\ wok = <<>>
  /\ cur = <<>>
  /\ sentCmd = <<>>
  /\ created = <<>>
  /\ cstate = <<>>
  /\ chanState = "none"
  /\ chanTable = {}
  /\ fwd = {}
  /\ panicked = FALSE
  /\ genFail = {}

\* the components of the first part of the module, at rest
OldIdle ==
  /\ registry = [c \in ClientSet |-> "connected"]
  /\ allowed = ClientSet
  /\ req = [path |-> "rest_cmd", clientIDs |-> <<>>, groupIDs |-> <<>>,
            concurrent |-> FALSE, abortOnError |-> "nil"]
  /\ DispatchIdle
  /\ StoreIdle
  /\ BanIdle
  /\ ExpIdle
  /\ AuthIdle
  /\ AclIdle
  /\ PortIdle

Init ==
  /\ \E sc \in Scenarios : registry = sc.registry /\ allowed = sc.allowed
  /\ req \in Requests
  /\ DispatchIdle
  /\ StoreIdle
  /\ ExtIdle
  /\ BanIdle

Next ==
  \/ (HandleResolve /\ UNCHANGED <<lastOp, banVars, extVars, laterVars>>)
  \/ (PushScript /\ UNCHANGED <<lastOp, banVars, extVars, laterVars>>)
  \/ (HandleValidate /\ UNCHANGED <<lastOp, banVars, extVars, laterVars>>)
  \/ (HandleAuthorize /\ UNCHANGED <<lastOp, banVars, extVars, laterVars>>)
  \/ (HandleCreateMultiJob /\ UNCHANGED <<lastOp, banVars, extVars, laterVars>>)
  \/ (ExecStart /\ UNCHANGED <<lastOp, banVars, extVars, laterVars>>)
  \/ (LoopStep /\ UNCHANGED <<lastOp, banVars, extVars, laterVars>>)
  \/ (LoopEnd /\ UNCHANGED <<lastOp, banVars, extVars, laterVars>>)
  \/ (LoopReturn /\ UNCHANGED <<lastOp, banVars, extVars, laterVars>>)
  \/ (LoopReceive /\ UNCHANGED <<lastOp, banVars, extVars, laterVars>>)
  \/ (SingleStart /\ UNCHANGED <<lastOp, banVars, extVars, laterVars>>)
  \/ (SingleReturn /\ UNCHANGED <<lastOp, banVars, extVars, laterVars>>)
  \/ (UIClose /\ UNCHANGED <<lastOp, banVars, extVars, laterVars>>)
  \/ (ExecEnd /\ UNCHANGED <<lastOp, banVars, extVars, laterVars>>)
  \/ (ExecDel /\ UNCHANGED <<lastOp, banVars, extVars, laterVars>>)
  \/ \E i \in 1..N : (RunJobSend(i) /\ UNCHANGED <<lastOp, banVars, extVars, laterVars>>)
  \/ \E i \in 1..N : (RunJobCreate(i) /\ UNCHANGED <<lastOp, banVars, extVars, laterVars>>)
  \/ \E i \in 1..N : (CmdResult(i) /\ UNCHANGED <<lastOp, banVars, extVars, laterVars>>)

Spec == Init /\ [][Next]_vars

(***************************************************************************)
(* Properties of the dispatcher                                            *)
(***************************************************************************)
Targets == 1..N
FwdIdx == {f.idx : f \in fwd}
SequentialMultiJob == IsMulti /\ ~Concurrent
ConcurrentMultiJob == IsMulti /\ Concurrent

\* the child for target i is failed: its send failed or its cmd_result said failed
ChildFailed(i) ==
  \/ cur[i] # NoJob /\ cur[i].status = StatusFailed
  \/ i \in DOMAIN jobs /\ jobs[i].status = StatusFailed

\* nothing was persisted and no run_cmd was sent
NothingDispatched ==
  /\ DOMAIN multiJobs = {}
  /\ DOMAIN jobs = {}
  /\ \A i \in Targets : sentCmd[i] = NoJob /\ created[i] = NoJob

\* C1: in a sequential MultiJob with abort_on_error, once the child of a target is
\* failed, no run_cmd is sent to a later target and no child of a later target is
\* persisted, on the REST and on the WebSocket path.
C1_NoDispatchAfterFailedChild ==
  (SequentialMultiJob /\ JobAbortOnErr) =>
    \A i \in Targets, j \in Targets :
      (i < j /\ ChildFailed(i)) =>
        sentCmd[j] = NoJob /\ created[j] = NoJob /\ j \notin DOMAIN jobs

\* a sequential abort-on-error MultiJob over three targets has ended after the first
\* child came back failed
C1_Witness ==
  /\ SequentialMultiJob /\ JobAbortOnErr
  /\ N >= 3
  /\ dpc = "done"
  /\ cstate[1] = "reported"
  /\ 1 \in DOMAIN jobs /\ jobs[1].status = StatusFailed
  /\ sentCmd[2] = NoJob

\* the child of target i has reached a terminal state for the loop: its call returned
\* and either it failed to start or its result was received from the done-channel
ChildSettled(i) ==
  /\ wpc[i] = "done"
  /\ ~wok[i] \/ (cstate[i] = "reported" /\ i \notin FwdIdx)

\* C2: in a sequential MultiJob the children are dispatched in the resolved target
\* order, the next run_cmd is sent only after the previous child is settled, and no
\* two children are running at the same time.
C2_SequentialOneInFlight ==
  SequentialMultiJob =>
    /\ \A j \in Targets :
         sentCmd[j] # NoJob =>
           /\ sentCmd[j].clientID = ordered[j]
           /\ \A i \in 1..(j - 1) : ChildSettled(i)
    /\ Cardinality({i \in Targets : cstate[i] = "running"}) <= 1
    /\ Cardinality({k \in DOMAIN jobs : jobs[k].status = StatusRunning}) <= 1

\* the third child of a sequential MultiJob is running after the first two ran and
\* reported their results
C2_Witness ==
  /\ SequentialMultiJob
  /\ N >= 3
  /\ wok[1] /\ wok[2]
  /\ cstate[1] = "reported" /\ cstate[2] = "reported"
  /\ cstate[3] = "running"
  /\ 3 \in DOMAIN jobs /\ jobs[3].status = StatusRunning

C6_MultiJobPersistedFirst ==
  /\ \A k \in DOMAIN jobs :
       jobs[k].multiJobID # NoMJ => jobs[k].multiJobID \in DOMAIN multiJobs
  /\ \A i \in Targets :
       (sentCmd[i] # NoJob /\ sentCmd[i].multiJobID # NoMJ) =>
         sentCmd[i].multiJobID \in DOMAIN multiJobs
  /\ hpc = "rejected" => (DOMAIN jobs = {} /\ \A i \in Targets : sentCmd[i] = NoJob)

\* a child with a multi_job_id is stored
C6_Witness ==
  \E k \in DOMAIN jobs : jobs[k].multiJobID = HandlerJid /\ HandlerJid \in DOMAIN multiJobs

IdSet(ids) == {ids[i] : i \in 1..Len(ids)}
Resolved == hpc \notin {"recv", "rejected"}

\* C7: the resolved targets are the explicit client_ids in request order followed by
\* the active group clients that are not listed explicitly, and no client occurs in
\* them more than once.
C7_OrderedTargetsUnique ==
  Resolved =>
    /\ ordered = req.clientIDs \o
         SelectSeq(GetActiveByGroups(req.groupIDs), LAMBDA c : c \notin IdSet(req.clientIDs))
    /\ \A i \in Targets, j \in Targets : i # j => ordered[i] # ordered[j]

HasUnknownClient == \E i \in 1..Len(req.clientIDs) : req.clientIDs[i] \notin DOMAIN registry
HasDisconnectedClient ==
  \E i \in 1..Len(req.clientIDs) :
    req.clientIDs[i] \in DOMAIN registry /\ registry[req.clientIDs[i]] = "disconnected"
HasUnknownGroup == \E i \in 1..Len(req.groupIDs) : req.groupIDs[i] \notin KnownGroups

\* C8 as stated: an unknown explicit client_id fails the request with not-found, a
\* disconnected one with bad-request, an unknown group with bad-request (an internal
\* error of a provider aside), and nothing is persisted or sent.
C8_Original ==
  hpc # "recv" =>
    /\ HasUnknownClient =>
         (hpc = "rejected" /\ respStatus \in {404, 500} /\ NothingDispatched)
    /\ HasDisconnectedClient =>
         (hpc = "rejected" /\ respStatus \in {400, 500} /\ NothingDispatched)
    /\ HasUnknownGroup =>
         (hpc = "rejected" /\ respStatus \in {400, 500} /\ NothingDispatched)

\* the status of the first look-up that fails: the groups first, then the explicit ids
FirstBadClient ==
  LET bad == {i \in 1..Len(req.clientIDs) :
                \/ req.clientIDs[i] \notin DOMAIN registry
                \/ registry[req.clientIDs[i]] = "disconnected"}
  IN CHOOSE i \in bad : \A k \in bad : i <= k
FirstFailureStatus ==
  IF HasUnknownGroup THEN 400
  ELSE IF req.clientIDs[FirstBadClient] \notin DOMAIN registry THEN 404
  ELSE 400

\* C8 (amended): a request naming an unknown group, an unknown explicit client or a
\* disconnected explicit client is rejected with the status of the first look-up that
\* fails (groups in request order first, then explicit ids in request order; a provider
\* error on an earlier look-up gives an internal error), and nothing is persisted or sent.
C8_RejectedByFirstFailure ==
  (hpc # "recv" /\ (HasUnknownClient \/ HasDisconnectedClient \/ HasUnknownGroup)) =>
    /\ hpc = "rejected"
    /\ respStatus \in {FirstFailureStatus, 500}
    /\ NothingDispatched
    /\ pushes = <<>>

\* a request with a disconnected client listed before an unknown one was rejected
C8_Witness ==
  /\ hpc = "rejected"
  /\ HasUnknownClient /\ HasDisconnectedClient
  /\ respStatus = 400
  /\ FirstFailureStatus = 400

\* C9: when the user lacks access to a resolved target, the dispatch is rejected, no
\* create_file and no run_cmd is sent to any client and no MultiJob or Job is persisted.
C9_AccessCheckedBeforeAnySend ==
  (Resolved /\ ~CheckClientsAccess(ordered)) =>
    /\ hpc # "accepted"
    /\ pushes = <<>>
    /\ NothingDispatched

(***************************************************************************)
(* Specification of the job store                                          *)
(***************************************************************************)
\* a jid belongs to one client for good
ClientOfJid(k) == IF k = MaxStoreJid THEN "c2" ELSE "c1"

StoreRows ==
  {[NewJob(k, ClientOfJid(k), mj, FALSE, CmdOf(ClientOfJid(k)))
      EXCEPT !.status = st, !.pid = TRUE,
             !.finishedAt = (st # StatusRunning), !.result = (st # StatusRunning),
             !.error = (st = StatusFailed)] :
     k \in 1..MaxStoreJid, mj \in {NoMJ, HandlerJid},
     st \in {StatusRunning, StatusSuccessful, StatusFailed}}

StoreSave(j) ==
  /\ jobs' = SaveJob(jobs, j)
  /\ lastOp' = [op |-> "save", arg |-> j, before |-> jobs]
  /\ UNCHANGED <<dispatchVars, banVars, extVars, laterVars>>

StoreCreate(j) ==
  /\ jobs' = CreateJob(jobs, j)
  /\ lastOp' = [op |-> "create", arg |-> j, before |-> jobs]
  /\ UNCHANGED <<dispatchVars, banVars, extVars, laterVars>>

InitStore ==
  /\ registry = [c \in ClientSet |-> "connected"]
  /\ allowed = ClientSet
  /\ req = [path |-> "rest_cmd", clientIDs |-> <<>>, groupIDs |-> <<>>,
            concurrent |-> FALSE, abortOnError |-> "nil"]
  /\ DispatchIdle
  /\ StoreIdle
  /\ ExtIdle
  /\ BanIdle

NextStore ==
  \/ \E j \in StoreRows : StoreSave(j)
  \/ \E j \in StoreRows : StoreCreate(j)

SpecStore == InitStore /\ [][NextStore]_vars

\* C4: create_job is create-if-absent: for a jid that is stored it leaves the rows as
\* they were, so get_by_jid returns the row stored before, and calling it again with
\* the same jid changes nothing any more.
C4_CreateIfAbsent ==
  /\ (lastOp.op = "create" /\ lastOp.arg.jid \in DOMAIN lastOp.before) =>
       /\ jobs = lastOp.before
       /\ GetByJID(jobs, lastOp.arg.clientID, lastOp.arg.jid) = lastOp.before[lastOp.arg.jid]
  /\ \A j1 \in StoreRows, j2 \in StoreRows :
       j1.jid = j2.jid => CreateJob(CreateJob(jobs, j1), j2) = CreateJob(jobs, j1)

\* create_job was called for a stored jid with another status
C4_Witness ==
  /\ lastOp.op = "create"
  /\ lastOp.arg.jid \in DOMAIN lastOp.before
  /\ lastOp.before[lastOp.arg.jid].status # lastOp.arg.status
  /\ jobs[lastOp.arg.jid].status # lastOp.arg.status

\* C5: save_job is an upsert keyed by jid: afterwards get_by_jid returns the saved job,
\* a new jid is added, a stored jid keeps the set of stored jids and the jids listed for
\* the client, the other rows are unchanged, and an unknown jid yields no job.
C5_SaveUpserts ==
  /\ lastOp.op = "save" =>
       LET j == lastOp.arg
           b == lastOp.before
       IN /\ GetByJID(jobs, j.clientID, j.jid) = j
          /\ DOMAIN jobs = DOMAIN b \cup {j.jid}
          /\ j.jid \in DOMAIN b =>
               GetSummariesByClientID(jobs, j.clientID) = GetSummariesByClientID(b, j.clientID)
          /\ \A k \in DOMAIN b \ {j.jid} : jobs[k] = b[k]
          /\ \A c \in ClientSet \ {j.clientID} :
               GetSummariesByClientID(jobs, c) = GetSummariesByClientID(b, c)
  /\ \A k \in (1..(MaxStoreJid + 1)) \ DOMAIN jobs, c \in ClientSet :
       GetByJID(jobs, c, k) = NoJob

\* a stored running job was saved again as finished while another client has jobs
C5_Witness ==
  /\ lastOp.op = "save"
  /\ lastOp.arg.jid \in DOMAIN lastOp.before
  /\ lastOp.before[lastOp.arg.jid].status = StatusRunning
  /\ lastOp.arg.status = StatusSuccessful
  /\ \E k \in DOMAIN jobs : jobs[k].clientID # lastOp.arg.clientID

(***************************************************************************)
(* Max-bad-attempts ban list (share/security/banlist.go)                   *)
(***************************************************************************)
NoBanTime == -1

\* IsBanned checks whether a given visitor is banned or not
IsBanned(k) ==
  /\ k \in DOMAIN visitors
  /\ visitors[k].banTime # NoBanTime
  /\ visitors[k].banTime > now

\* AddBadAttempt as it would be with the threshold off by one
AddBadAttempt_OffByOne(k) ==
  LET v == IF k \in DOMAIN visitors THEN visitors[k]
           ELSE [badAttempts |-> 0, banTime |-> NoBanTime]
      n == v.badAttempts + 1
  IN /\ visitors' =
          [x \in DOMAIN visitors \cup {k} |->
             IF x # k THEN visitors[x]
             ELSE IF n = maxBadAttempts + 1
                  THEN [badAttempts |-> 0, banTime |-> now + banDuration]
                  ELSE [v EXCEPT !.badAttempts = n]]
     /\ streak' = [streak EXCEPT ![k] = IF @ = -1 \/ @ >= maxBadAttempts THEN -1 ELSE @ + 1]
     /\ lastBan' = [lastBan EXCEPT ![k] = now]
     /\ run' = [run EXCEPT ![k] = IF @ < maxBadAttempts THEN @ + 1 ELSE @]
     /\ banOp' = [op |-> "bad", key |-> k, wasBanned |-> IsBanned(k)]
     /\ UNCHANGED <<maxBadAttempts, banDuration, now, dispatchVars, storeVars, extVars>>

\* AddBadAttempt registers a bad attempt of a visitor
AddBadAttempt(k) ==
  LET v == IF k \in DOMAIN visitors THEN visitors[k]
           ELSE [badAttempts |-> 0, banTime |-> NoBanTime]
      n == v.badAttempts + 1
  IN /\ visitors' =
          [x \in DOMAIN visitors \cup {k} |->
             IF x # k THEN visitors[x]
             ELSE IF n = maxBadAttempts
                  THEN [badAttempts |-> 0, banTime |-> now + banDuration]
                  ELSE [v EXCEPT !.badAttempts = n]]
     /\ streak' = [streak EXCEPT ![k] = IF @ = -1 \/ @ >= maxBadAttempts THEN -1 ELSE @ + 1]
     /\ lastBan' = [lastBan EXCEPT ![k] = now]
     /\ run' = [run EXCEPT ![k] = IF @ < maxBadAttempts THEN @ + 1 ELSE @]
     /\ banOp' = [op |-> "bad", key |-> k, wasBanned |-> IsBanned(k)]
     /\ UNCHANGED <<maxBadAttempts, banDuration, now, dispatchVars, storeVars, extVars>>

\* AddSuccessAttempt as it would be if it reset the counter only
AddSuccessAttempt_KeepBan(k) ==
  /\ visitors' = [x \in DOMAIN visitors |->
                    IF x = k THEN [visitors[x] EXCEPT !.badAttempts = 0]
                    ELSE visitors[x]]
  /\ streak' = [streak EXCEPT ![k] = -1]
  /\ run' = [run EXCEPT ![k] = 0]
  /\ banOp' = [op |-> "success", key |-> k, wasBanned |-> IsBanned(k)]
  /\ UNCHANGED <<lastBan, maxBadAttempts, banDuration, now, dispatchVars, storeVars, extVars>>

\* AddSuccessAttempt registers a successful attempt of a visitor
AddSuccessAttempt(k) ==
  /\ visitors' = [x \in DOMAIN visitors |->
                    IF x = k THEN [badAttempts |-> 0, banTime |-> NoBanTime]
                    ELSE visitors[x]]
  /\ streak' = [streak EXCEPT ![k] = -1]
  /\ run' = [run EXCEPT ![k] = 0]
  /\ banOp' = [op |-> "success", key |-> k, wasBanned |-> IsBanned(k)]
  /\ UNCHANGED <<lastBan, maxBadAttempts, banDuration, now, dispatchVars, storeVars, extVars>>

\* time passes
Tick ==
  /\ now < MaxTime
  /\ now' = now + 1
  /\ UNCHANGED <<visitors, maxBadAttempts, banDuration, streak, lastBan, run, banOp,
               dispatchVars, storeVars, extVars>>

InitBan ==
  /\ registry = [c \in ClientSet |-> "connected"]
  /\ allowed = ClientSet
  /\ req = [path |-> "rest_cmd", clientIDs |-> <<>>, groupIDs |-> <<>>,
            concurrent |-> FALSE, abortOnError |-> "nil"]
  /\ DispatchIdle
  /\ StoreIdle
  /\ ExtIdle
  /\ visitors = [k \in {} |-> 0]
  /\ maxBadAttempts \in 1..MaxThreshold
  /\ banDuration \in 1..MaxBanDuration
  /\ now = 0
  /\ streak = [k \in Keys |-> 0]
  /\ lastBan = [k \in Keys |-> 0]
  /\ run = [k \in Keys |-> 0]
  /\ banOp = [op |-> "none", key |-> "-", wasBanned |-> FALSE]

NextBan ==
  \/ \E k \in Keys : (AddBadAttempt(k) /\ UNCHANGED laterVars)
  \/ \E k \in Keys : (AddSuccessAttempt(k) /\ UNCHANGED laterVars)
  \/ (Tick /\ UNCHANGED laterVars)

SpecBan == InitBan /\ [][NextBan]_vars

\* C10: for a key without recorded state and n bad attempts with no successful attempt
\* in between, the key is not banned while n is below the threshold; the attempt that
\* reaches the threshold sets the ban-until stamp to now + ban duration and the counter
\* to 0, and the key is banned when read at once.
C10_BannedAtThreshold ==
  \A k \in Keys :
    /\ (streak[k] >= 0 /\ streak[k] < maxBadAttempts) => ~IsBanned(k)
    /\ (streak[k] > 0 /\ streak[k] < maxBadAttempts) => visitors[k].badAttempts = streak[k]
    /\ streak[k] = maxBadAttempts =>
         /\ visitors[k].banTime = lastBan[k] + banDuration
         /\ visitors[k].badAttempts = 0
         /\ now = lastBan[k] => IsBanned(k)

\* a key reached a threshold above one and is read at once
C10_Witness ==
  \E k \in Keys :
    /\ maxBadAttempts >= 2
    /\ streak[k] = maxBadAttempts
    /\ now = lastBan[k]
    /\ IsBanned(k)

\* C11: right after AddSuccessAttempt(k), and until the next operation on the list, k is
\* not banned and its counter is 0, whatever preceded; a key carries a ban-until stamp
\* only when the threshold number of bad attempts came with no successful attempt in
\* between.
C11_SuccessClears ==
  /\ banOp.op = "success" =>
       /\ ~IsBanned(banOp.key)
       /\ banOp.key \in DOMAIN visitors => visitors[banOp.key].badAttempts = 0
  /\ \A k \in DOMAIN visitors :
       visitors[k].banTime # NoBanTime => run[k] = maxBadAttempts

\* a successful attempt of a key that was banned when it came
C11_Witness ==
  /\ banOp.op = "success"
  /\ banOp.wasBanned
  /\ banOp.key \in DOMAIN visitors

(***************************************************************************)
(* Expiry ban list (share/security/banlist.go, BanList)                    *)
(***************************************************************************)
\* Add as it would be if a repeated Add kept the expiry of the first
BanListAdd_KeepFirst(k) ==
  /\ blVisitors' = [x \in DOMAIN blVisitors \cup {k} |->
                      IF x = k /\ k \notin DOMAIN blVisitors THEN now + blDuration
                      ELSE blVisitors[x]]
  /\ firstAdd' = [firstAdd EXCEPT ![k] = IF @ = -1 THEN now ELSE @]
  /\ lastAdd' = [lastAdd EXCEPT ![k] = now]
  /\ UNCHANGED <<blDuration, dispatchVars, storeVars, banVars>>

\* l.visitors[visitorKey] = time.Now().Add(l.banDuration)
BanListAdd(k) ==
  /\ blVisitors' = [x \in DOMAIN blVisitors \cup {k} |->
                      IF x = k THEN now + blDuration ELSE blVisitors[x]]
  /\ firstAdd' = [firstAdd EXCEPT ![k] = IF @ = -1 THEN now ELSE @]
  /\ lastAdd' = [lastAdd EXCEPT ![k] = now]
  /\ UNCHANGED <<blDuration, dispatchVars, storeVars, banVars>>

\* return found && banExpiry.After(time.Now())
BanListIsBanned(k) ==
  /\ k \in DOMAIN blVisitors
  /\ blVisitors[k] > now

InitExp ==
  /\ registry = [c \in ClientSet |-> "connected"]
  /\ allowed = ClientSet
  /\ req = [path |-> "rest_cmd", clientIDs |-> <<>>, groupIDs |-> <<>>,
            concurrent |-> FALSE, abortOnError |-> "nil"]
  /\ DispatchIdle
  /\ StoreIdle
  /\ BanIdle
  /\ blVisitors = [k \in {} |-> 0]
  /\ blDuration \in 1..MaxBanDuration
  /\ firstAdd = [k \in Keys |-> -1]
  /\ lastAdd = [k \in Keys |-> -1]
  /\ AuthIdle
  /\ AclIdle
  /\ PortIdle
  /\ MoreIdle

NextExp ==
  \/ \E k \in Keys : (BanListAdd(k) /\ UNCHANGED laterVars)
  \/ (Tick /\ UNCHANGED laterVars)

SpecExp == InitExp /\ [][NextExp]_vars

\* C12: a key that was never added is not banned; a key whose last Add came at clock t
\* is banned at every read before t + ban duration and not banned at every read at or
\* after it, so a repeated Add moves the expiry to the latest Add plus the duration.
C12_BannedUntilExpiry ==
  \A k \in Keys :
    /\ lastAdd[k] = -1 => ~BanListIsBanned(k)
    /\ lastAdd[k] >= 0 => (BanListIsBanned(k) <=> now < lastAdd[k] + blDuration)

\* a key added twice, read after the first expiry and before the second
C12_Witness ==
  \E k \in Keys :
    /\ firstAdd[k] >= 0
    /\ lastAdd[k] > firstAdd[k]
    /\ now >= firstAdd[k] + blDuration
    /\ BanListIsBanned(k)

\* a key whose ban ran out
C12_WitnessExpired ==
  \E k \in Keys : lastAdd[k] >= 0 /\ now >= lastAdd[k] + blDuration /\ ~BanListIsBanned(k)

(***************************************************************************)
(* Authentication of API requests (wrapWithAuthMiddleware, handleLogin)    *)
(***************************************************************************)
\* the user names a request can carry; the empty one stands for no user name
AuthUsers == {"", "k1"}

\* the callers' addresses
AuthIPs == {"k1"}

AuthRequests ==
  [entry : {"middleware", "login"},
   ip : AuthIPs,
   user : AuthUsers,
   authorized : BOOLEAN,      \* what the credential check answers
   err : {"nil", "other"}]    \* whether the user look-up or the credential check fails

\* a request arrives at one of the two entry points
AuthReceive ==
  /\ authPc \in {"idle", "done"}
  /\ authReq' \in AuthRequests
  /\ authPc' = "lookup"
  /\ authRes' = [status |-> 0, ipFed |-> FALSE, userFed |-> FALSE]
  /\ UNCHANGED <<dispatchVars, storeVars, banVars, extVars, nonAuthLater>>

\* the error lookupUser returns: a banned user name gives ErrTooManyRequests
LookupErr ==
  IF BanListIsBanned(authReq.user) THEN "TooManyRequests" ELSE authReq.err

\* the handler up to its call of handleBannedIPs, with its early returns
AuthLookup ==
  /\ authPc = "lookup"
  /\ IF authReq.entry = "middleware"
     THEN \* authorized, username, err := al.lookupUser(r); if err != nil { ... return }
          IF LookupErr = "TooManyRequests"
          THEN authPc' = "done" /\ authRes' = [authRes EXCEPT !.status = 429]
          ELSE IF LookupErr # "nil"
          THEN authPc' = "done" /\ authRes' = [authRes EXCEPT !.status = 500]
          ELSE authPc' = "ip" /\ UNCHANGED authRes
     ELSE \* handleLogin
          IF BanListIsBanned(authReq.user)
          THEN authPc' = "done" /\ authRes' = [authRes EXCEPT !.status = 429]
          ELSE IF authReq.user = ""
          THEN authPc' = "done" /\ authRes' = [authRes EXCEPT !.status = 401]
          ELSE IF authReq.err # "nil"
          THEN authPc' = "done" /\ authRes' = [authRes EXCEPT !.status = 500]
          ELSE authPc' = "ip" /\ UNCHANGED authRes
  /\ UNCHANGED <<authReq, dispatchVars, storeVars, banVars, extVars, nonAuthLater>>

\* handleBannedIPs with a configured IP ban list and a well-formed remote address
AuthHandleBannedIPs ==
  /\ authPc = "ip"
  /\ IF authReq.authorized
     THEN AddSuccessAttempt(authReq.ip)
     ELSE AddBadAttempt(authReq.ip)
  /\ authRes' = [authRes EXCEPT !.ipFed = ~authReq.authorized]
  /\ authPc' = "user"
  /\ UNCHANGED <<authReq, nonAuthLater>>

\* the rest of the handler: the user ban list and the response
AuthFinish ==
  /\ authPc = "user"
  /\ IF ~authReq.authorized \/ (authReq.entry = "middleware" /\ authReq.user = "")
     THEN /\ BanListAdd(authReq.user)
          /\ authRes' = [authRes EXCEPT !.status = 401, !.userFed = TRUE]
     ELSE /\ authRes' = [authRes EXCEPT !.status = 200]
          /\ UNCHANGED <<dispatchVars, storeVars, banVars, extVars>>
  /\ authPc' = "done"
  /\ UNCHANGED <<authReq, nonAuthLater>>

InitAuth ==
  /\ registry = [c \in ClientSet |-> "connected"]
  /\ allowed = ClientSet
  /\ req = [path |-> "rest_cmd", clientIDs |-> <<>>, groupIDs |-> <<>>,
            concurrent |-> FALSE, abortOnError |-> "nil"]
  /\ DispatchIdle
  /\ StoreIdle
  /\ visitors = [k \in {} |-> 0]
  /\ maxBadAttempts = 2
  /\ banDuration = 1
  /\ now = 0
  /\ streak = [k \in Keys |-> 0]
  /\ lastBan = [k \in Keys |-> 0]
  /\ run = [k \in Keys |-> 0]
  /\ banOp = [op |-> "none", key |-> "-", wasBanned |-> FALSE]
  /\ ExtIdle

NextAuth ==
  \/ AuthReceive
  \/ AuthLookup
  \/ AuthHandleBannedIPs
  \/ AuthFinish
  \/ (Tick /\ UNCHANGED laterVars)

SpecAuth == InitAuth /\ [][NextAuth]_vars

\* C13: every request through the auth middleware or the login handler that does not
\* end up authorized has recorded a bad attempt for the caller's ip and has added the
\* user name to the user ban list, whatever the kind of failure.
C13_EveryFailureFeeds ==
  (authPc = "done" /\ authRes.status # 200) => (authRes.ipFed /\ authRes.userFed)

\* wrong credentials: the one failure after which both lists are fed
C13_WrongCredentialsFeed ==
  (authPc = "done" /\ authRes.status = 401 /\ authReq.user # "") =>
     (authRes.ipFed /\ authRes.userFed)

(***************************************************************************)
(* Tunnel ACL (server/clients/tunnel_acl.go)                               *)
(* An address is the sequence of its bytes, 4 or 16 of them as in net.IP;  *)
(* a mask is its length in bytes and its number of leading one bits.       *)
(***************************************************************************)
MaxAclEntries == 2

v4InV6Prefix == <<0, 0, 0, 0, 0, 0, 0, 0, 0, 0, 255, 255>>
\* net.IPv4(a, b, c, d): the 16-byte form of an IPv4 address
IPv4(o) == v4InV6Prefix \o o
NilIP == <<>>
IPv4zero == IPv4(<<0, 0, 0, 0>>)

\* the dotted-quad texts and the IPv6 texts an entry can hold
V4Texts == {<<0, 0, 0, 0>>, <<10, 0, 0, 0>>, <<10, 0, 0, 1>>, <<10, 0, 1, 1>>}
V6Loopback == <<0, 0, 0, 0, 0, 0, 0, 0, 0, 0, 0, 0, 0, 0, 0, 1>>
V6Texts == {V6Loopback, IPv4(<<10, 0, 0, 1>>)}
NoPrefix == -1

\* the entries between the commas: an address text with an optional /prefix, or text
\* that is no address at all (the empty text included)
AclEntries ==
  [text : {"v4"}, o : V4Texts, p : {NoPrefix, 0, 24, 32, 40}]
    \cup [text : {"v6"}, o : V6Texts, p : {NoPrefix, 8, 120}]
    \cup {[text |-> "bad", o |-> NilIP, p |-> NoPrefix]}

\* ip.To4(): the 4-byte form, nil when the address is not an IPv4 address
To4(ip) ==
  IF Len(ip) = 4 THEN ip
  ELSE IF Len(ip) = 16 /\ SubSeq(ip, 1, 12) = v4InV6Prefix THEN SubSeq(ip, 13, 16)
  ELSE NilIP

\* ip.Equal(x)
IPEqual(ip, x) ==
  IF Len(ip) = Len(x) THEN ip = x
  ELSE IF To4(ip) # NilIP /\ To4(x) # NilIP THEN To4(ip) = To4(x)
  ELSE FALSE

\* net.CIDRMask(ones, bits)
CIDRMask(ones, bits) == [len |-> bits \div 8, ones |-> ones]
\* the mask bytes as they would be if every mask were all ones
MaskByte_AllOnes(m, i) == 255
MaskByte(m, i) == IF i * 8 <= m.ones THEN 255 ELSE 0
\* m[12:] of a 16-byte mask
MaskTail(m) == [len |-> 4, ones |-> IF m.ones >= 96 THEN m.ones - 96 ELSE 0]
AndByte(b, mb) == IF mb = 255 THEN b ELSE 0

\* ip.Mask(mask)
IPMask(ip, mask) ==
  LET ip2 == IF mask.len = 4 /\ Len(ip) = 16 /\ SubSeq(ip, 1, 12) = v4InV6Prefix
             THEN SubSeq(ip, 13, 16) ELSE ip
      m2 == IF mask.len = 16 /\ Len(ip) = 4 /\ mask.ones >= 96 THEN MaskTail(mask) ELSE mask
  IN IF Len(ip2) # m2.len THEN NilIP
     ELSE [i \in 1..Len(ip2) |-> AndByte(ip2[i], MaskByte(m2, i))]

\* net.ParseIP(s): the 16-byte form, nil when s is no address
ParseIP(e) ==
  IF e.text = "v4" THEN IPv4(e.o)
  ELSE IF e.text = "v6" THEN e.o
  ELSE NilIP

\* net.ParseCIDR(s): [err, ip, ipNet]
ParseCIDR(e) ==
  LET iplen == IF e.text = "v4" THEN 4 ELSE 16
      ip == ParseIP(e)
      m == CIDRMask(e.p, 8 * iplen)
  IN IF ip = NilIP \/ e.p < 0 \/ e.p > 8 * iplen
     THEN [err |-> TRUE, ip |-> NilIP, ipNet |-> [nil |-> TRUE]]
     ELSE [err |-> FALSE, ip |-> ip,
           ipNet |-> [nil |-> FALSE, IP |-> IPMask(ip, m), Mask |-> m]]

\* parseIPNet as it would be without the check for 0.0.0.0
parseIPNet_AllowZero(e) ==
  LET cidr == ParseCIDR(e)
      hasSlash == e.p # NoPrefix
      ip == IF hasSlash THEN cidr.ip ELSE ParseIP(e)
  IN IF hasSlash /\ cidr.err THEN [err |-> TRUE]
     ELSE IF ip = NilIP THEN [err |-> TRUE]
     ELSE IF To4(ip) = NilIP THEN [err |-> TRUE]
     ELSE IF hasSlash THEN [err |-> FALSE, IP |-> cidr.ipNet.IP, Mask |-> cidr.ipNet.Mask]
     ELSE [err |-> FALSE, IP |-> ip, Mask |-> CIDRMask(32, 32)]

\* parseIPNet: [err] or [err, IP, Mask]
parseIPNet(e) ==
  LET cidr == ParseCIDR(e)
      hasSlash == e.p # NoPrefix          \* strings.ContainsRune(strVal, '/')
      ip == IF hasSlash THEN cidr.ip ELSE ParseIP(e)
  IN IF hasSlash /\ cidr.err THEN [err |-> TRUE]
     ELSE IF ip = NilIP THEN [err |-> TRUE]
     ELSE IF To4(ip) = NilIP THEN [err |-> TRUE]
     ELSE IF IPEqual(ip, IPv4zero) THEN [err |-> TRUE]
     ELSE IF hasSlash THEN [err |-> FALSE, IP |-> cidr.ipNet.IP, Mask |-> cidr.ipNet.Mask]
     ELSE [err |-> FALSE, IP |-> ip, Mask |-> CIDRMask(32, 32)]

NilACL == [nil |-> TRUE]

\* the loop of ParseTunnelACL over the entries from position i on
RECURSIVE ParseEntries(_, _, _)
ParseEntries(values, i, allowedIPs) ==
  IF i > Len(values) THEN [err |-> FALSE, acl |-> [nil |-> FALSE, AllowedIPs |-> allowedIPs]]
  ELSE LET ipNet == parseIPNet(values[i])
       IN IF ipNet.err THEN [err |-> TRUE, acl |-> NilACL]
          ELSE ParseEntries(values, i + 1,
                            Append(allowedIPs, [IP |-> ipNet.IP, Mask |-> ipNet.Mask]))

\* ParseTunnelACL: the empty string is the list of no entries
ParseTunnelACL(str) ==
  IF str = <<>> THEN [err |-> FALSE, acl |-> NilACL]
  ELSE ParseEntries(str, 1, <<>>)

\* networkNumberAndMask of package net: [nil] or [nil, ip, m]
networkNumberAndMask(n) ==
  LET ip == IF To4(n.IP) # NilIP THEN To4(n.IP) ELSE n.IP
      m == n.Mask
  IN IF Len(ip) \notin {4, 16} THEN [nil |-> TRUE]
     ELSE IF m.len = 4
     THEN IF Len(ip) # 4 THEN [nil |-> TRUE] ELSE [nil |-> FALSE, ip |-> ip, m |-> m]
     ELSE IF Len(ip) = 4 THEN [nil |-> FALSE, ip |-> ip, m |-> MaskTail(m)]
     ELSE [nil |-> FALSE, ip |-> ip, m |-> m]

\* (*IPNet).Contains of package net
Contains(n, addr) ==
  LET nm == networkNumberAndMask(n)
      ip == IF To4(addr) # NilIP THEN To4(addr) ELSE addr
  IN /\ ~nm.nil
     /\ Len(ip) = Len(nm.ip)
     /\ \A i \in 1..Len(ip) :
          AndByte(nm.ip[i], MaskByte(nm.m, i)) = AndByte(ip[i], MaskByte(nm.m, i))

\* CheckAccess has a value receiver: called through a nil *TunnelACL it dereferences nil
CheckAccess(a, ip) ==
  IF a.nil THEN "panic"
  ELSE IF Len(a.AllowedIPs) = 0 THEN "allow"
  ELSE IF \E i \in 1..Len(a.AllowedIPs) : Contains(a.AllowedIPs[i], ip) THEN "allow"
  ELSE "deny"

\* the addresses a connection can come from
CheckIPs ==
  {<<10, 0, 0, 1>>, <<10, 0, 0, 5>>, <<10, 0, 1, 1>>, <<11, 0, 0, 1>>,
   IPv4(<<10, 0, 0, 5>>), V6Loopback}

\* acl, err := ParseTunnelACL(str)
AclParse ==
  /\ aclPc = "idle"
  /\ \E str \in SeqsUpTo(AclEntries, MaxAclEntries) :
       /\ aclStr' = str
       /\ aclRes' = ParseTunnelACL(str)
  /\ aclPc' = "parsed"
  /\ UNCHANGED <<aclIP, aclAccess, dispatchVars, storeVars, banVars, extVars, nonAclLater>>

\* acl := TunnelACL{}
AclBuild ==
  /\ aclPc = "idle"
  /\ aclRes' = [err |-> FALSE, acl |-> [nil |-> FALSE, AllowedIPs |-> <<>>]]
  /\ aclPc' = "built"
  /\ UNCHANGED <<aclStr, aclIP, aclAccess, dispatchVars, storeVars, banVars, extVars, nonAclLater>>

\* acl.CheckAccess(ip)
AclCheck ==
  /\ aclPc \in {"parsed", "built"}
  /\ ~aclRes.err
  /\ \E ip \in CheckIPs :
       /\ aclIP' = ip
       /\ aclAccess' = CheckAccess(aclRes.acl, ip)
  /\ aclPc' = "checked"
  /\ UNCHANGED <<aclStr, aclRes, dispatchVars, storeVars, banVars, extVars, nonAclLater>>

InitAcl ==
  /\ registry = [c \in ClientSet |-> "connected"]
  /\ allowed = ClientSet
  /\ req = [path |-> "rest_cmd", clientIDs |-> <<>>, groupIDs |-> <<>>,
            concurrent |-> FALSE, abortOnError |-> "nil"]
  /\ DispatchIdle
  /\ StoreIdle
  /\ BanIdle
  /\ ExtIdle

NextAcl ==
  \/ AclParse
  \/ AclBuild
  \/ AclCheck

SpecAcl == InitAcl /\ [][NextAcl]_vars

\* the value of a dotted quad, and membership of an address in the CIDR an entry lists
V4Val(o) == ((o[1] * 256 + o[2]) * 256 + o[3]) * 256 + o[4]
IsIPv4(ip) == Len(ip) = 4 \/ (Len(ip) = 16 /\ SubSeq(ip, 1, 12) = v4InV6Prefix)
Quad(ip) == IF Len(ip) = 4 THEN ip ELSE SubSeq(ip, 13, 16)
InCIDR(ip, e) ==
  LET pfx == IF e.p = NoPrefix THEN 32 ELSE e.p
  IN /\ IsIPv4(ip)
     /\ \/ pfx = 0
        \/ V4Val(Quad(ip)) \div (2 ^ (32 - pfx)) = V4Val(e.o) \div (2 ^ (32 - pfx))
AllIPv4Text == \A i \in 1..Len(aclStr) : aclStr[i].text = "v4"

\* C14: for an accepted ACL string of IPv4 addresses and CIDRs and every address ip,
\* CheckAccess(ip) is true iff ip lies in at least one of the listed CIDRs, an entry
\* without prefix counting as /32.
C14_AccessIffInSomeCIDR ==
  (aclPc = "checked" /\ aclStr # <<>> /\ AllIPv4Text) =>
     /\ aclAccess \in {"allow", "deny"}
     /\ aclAccess = "allow" <=> \E i \in 1..Len(aclStr) : InCIDR(aclIP, aclStr[i])

\* "10.0.0.1,10.0.0.0/24" admits 10.0.0.5
C14_Witness ==
  /\ aclPc = "checked"
  /\ aclStr = <<[text |-> "v4", o |-> <<10, 0, 0, 1>>, p |-> NoPrefix],
               [text |-> "v4", o |-> <<10, 0, 0, 0>>, p |-> 24]>>
  /\ aclIP = <<10, 0, 0, 5>>
  /\ aclAccess = "allow"

\* "10.0.0.1,10.0.0.0/24" denies 10.0.1.1 and ::1
C14_WitnessDenied ==
  /\ aclPc = "checked"
  /\ aclStr = <<[text |-> "v4", o |-> <<10, 0, 0, 1>>, p |-> NoPrefix],
               [text |-> "v4", o |-> <<10, 0, 0, 0>>, p |-> 24]>>
  /\ aclIP \in {<<10, 0, 1, 1>>, V6Loopback}
  /\ aclAccess = "deny"

\* C15: an access check made with the result of parsing the empty ACL string, and one
\* made with a TunnelACL of zero entries, admits every address without failing.
C15_EmptyAllowsAll ==
  (aclPc = "checked" /\ aclStr = <<>>) => aclAccess = "allow"

\* the half of C15 that holds: a TunnelACL of zero entries admits every address, and
\* parsing the empty string succeeds
C15_ZeroEntriesAllowAll ==
  /\ (aclPc = "checked" /\ ~aclRes.acl.nil /\ aclRes.acl.AllowedIPs = <<>>) => aclAccess = "allow"
  /\ (aclPc = "parsed" /\ aclStr = <<>>) => (~aclRes.err /\ aclRes.acl = NilACL)

\* an entry the claim says is rejected
EntryNotIPv4(e) == e.text # "v4" \/ e.p > 32 \/ e.o = <<0, 0, 0, 0>>

\* C16: ParseTunnelACL returns an error and no ACL whenever an entry is not a valid
\* IPv4 address or CIDR, is an IPv6 address, or has the address 0.0.0.0.
C16_RejectsNonIPv4 ==
  (aclPc = "parsed" /\ \E i \in 1..Len(aclStr) : EntryNotIPv4(aclStr[i])) =>
     (aclRes.err /\ aclRes.acl = NilACL)

\* the part of C16 that holds: entries that are no address, dotted quads with a prefix
\* above 32, IPv6 addresses that are not IPv4-mapped and 0.0.0.0 are rejected, and an
\* error comes with no ACL
C16_RejectsExceptMapped ==
  /\ (aclPc = "parsed" /\ \E i \in 1..Len(aclStr) :
        EntryNotIPv4(aclStr[i]) /\ ~(aclStr[i].text = "v6" /\ IsIPv4(aclStr[i].o))) =>
       aclRes.err
  /\ aclRes.err => aclRes.acl = NilACL

(***************************************************************************)
(* Port distributor (server/ports/port_distributor.go)                     *)
(***************************************************************************)
MaxPorts == 2
MaxConns == 1

ProtocolTCP == "tcp"
ProtocolUDP == "udp"
ProtocolTCPUDP == "tcp+udp"
Protocols == {ProtocolTCP, ProtocolUDP, ProtocolTCPUDP}

\* d.allowedPorts
allowedPorts == {44 + i : i \in 1..MaxPorts}

\* the connections the OS can report for a protocol
ConnUniverse ==
  {[status |-> "LISTEN", port |-> 45], [status |-> "NONE", port |-> 46],
   [status |-> "", port |-> 46], [status |-> "ESTABLISHED", port |-> 45],
   [status |-> "LISTEN", port |-> 0]}

\* what net.Connections(protocol) returns: an error, or a list of connections
ProbeResults ==
  {[err |-> TRUE, conns |-> {}]}
    \cup {[err |-> FALSE, conns |-> S] : S \in {T \in SUBSET ConnUniverse : Cardinality(T) <= MaxConns}}

\* ListBusyPorts as it would be if it counted connections in every state
ListBusyPorts_AnyStatus(r) ==
  {c.port : c \in {x \in r.conns : x.port # 0}}

\* ListBusyPorts, for a probe that succeeded
ListBusyPorts(r) ==
  {c.port : c \in {x \in r.conns : x.status \in {"LISTEN", "NONE", ""} /\ x.port # 0}}

\* d.SetPortsPool(p, m) on the map pools
SetPortsPool(pools, p, m) ==
  [x \in DOMAIN pools \cup {p} |-> IF x = p THEN m ELSE pools[x]]

\* d.refresh(protocol) with the probe result r: [err, pools]
refresh(pools, protocol, r) ==
  IF r.err THEN [err |-> TRUE, pools |-> pools]
  ELSE [err |-> FALSE,
        pools |-> SetPortsPool(pools, protocol, allowedPorts \ ListBusyPorts(r))]

\* getPool as it would be if tcp+udp were served from the TCP pool alone
getPool_TcpOnly(pools, protocol) ==
  IF protocol = ProtocolTCPUDP THEN pools[ProtocolTCP] ELSE pools[protocol]

\* d.getPool(protocol)
getPool(pools, protocol) ==
  IF protocol = ProtocolTCPUDP
  THEN pools[ProtocolTCP] \cap pools[ProtocolUDP]
  ELSE pools[protocol]

\* subProtocols
SubProtocols(protocol) ==
  IF protocol = ProtocolTCPUDP THEN <<ProtocolTCP, ProtocolUDP>> ELSE <<protocol>>

\* the pools as they would be if a returned port stayed in them
TakePort_Keep(pools, protocol, port) == pools

\* the pools after Pop returned port and the port was removed from every sub-pool
TakePort(pools, protocol, port) ==
  [x \in DOMAIN pools |->
     IF \E i \in 1..Len(SubProtocols(protocol)) : SubProtocols(protocol)[i] = x
     THEN pools[x] \ {port} ELSE pools[x]]

callVars == <<callPc, callProto, callRes, handed>>
SubSet(protocol) == {SubProtocols(protocol)[i] : i \in 1..Len(SubProtocols(protocol))}

\* the first loop of GetRandomPort: a sub-protocol without pool is refreshed, and the
\* first probe that fails ends the call; rs is what the OS answers per protocol
EnsurePools(pools, protocol, rs) ==
  LET sub == SubProtocols(protocol)
      need1 == sub[1] \notin DOMAIN pools
      s1 == IF need1 THEN refresh(pools, sub[1], rs[sub[1]])
            ELSE [err |-> FALSE, pools |-> pools]
      need2 == ~s1.err /\ Len(sub) = 2 /\ sub[2] \notin DOMAIN s1.pools
      s2 == IF need2 THEN refresh(s1.pools, sub[2], rs[sub[2]]) ELSE s1
  IN [err |-> s2.err, pools |-> s2.pools,
      probes |-> (IF need1 THEN {sub[1]} ELSE {}) \cup (IF need2 THEN {sub[2]} ELSE {})]

Probed(probes, rs) ==
  [x \in DOMAIN probed \cup probes |-> IF x \in probes THEN rs[x] ELSE probed[x]]

\* the answers of the OS to the probes a call makes: one per protocol it can probe
ProbeAnswers(protocols) ==
  {rs \in [{ProtocolTCP, ProtocolUDP} -> ProbeResults] :
     \A x \in {ProtocolTCP, ProtocolUDP} \ protocols : rs[x] = [err |-> TRUE, conns |-> {}]}

\* the returned ports that are still of the current pools: those of a protocol none of
\* whose pools was replaced
StillGiven(replaced) == {g \in given : SubSet(g[1]) \cap replaced = {}}

\* GetRandomPort(protocol), called by one caller at a time
GetRandomPort(protocol) ==
  \E rs \in ProbeAnswers(SubSet(protocol) \ DOMAIN portsPools) :
    LET e == EnsurePools(portsPools, protocol, rs)
        pool == getPool(e.pools, protocol)
        sameRun == runProto = protocol /\ e.probes = {}
    IN /\ probed' = Probed(e.probes, rs)
       /\ IF e.err
          THEN /\ portsPools' = e.pools
               /\ portOp' = [op |-> "get", proto |-> protocol, err |-> "probe", port |-> 0,
                             before |-> portsPools, atPop |-> e.pools, probes |-> e.probes]
               /\ runProto' = "none" /\ runStart' = {} /\ runGot' = <<>>
               /\ given' = StillGiven(e.probes)
          ELSE IF pool = {}
          THEN /\ portsPools' = e.pools
               /\ given' = StillGiven(e.probes)
               /\ portOp' = [op |-> "get", proto |-> protocol, err |-> "no_ports", port |-> 0,
                             before |-> portsPools, atPop |-> e.pools, probes |-> e.probes]
               /\ runProto' = protocol
               /\ runStart' = IF sameRun THEN runStart ELSE pool
               /\ runGot' = IF sameRun THEN runGot ELSE <<>>
          ELSE \E port \in pool :
               /\ portsPools' = TakePort(e.pools, protocol, port)
               /\ portOp' = [op |-> "get", proto |-> protocol, err |-> "nil", port |-> port,
                             before |-> portsPools, atPop |-> e.pools, probes |-> e.probes]
               /\ runProto' = protocol
               /\ runStart' = IF sameRun THEN runStart ELSE pool
               /\ runGot' = IF sameRun THEN Append(runGot, port) ELSE <<port>>
               /\ given' = StillGiven(e.probes) \cup {<<protocol, port>>}
       /\ UNCHANGED <<callVars, dispatchVars, storeVars, banVars, extVars, nonPortLater>>

\* Refresh: the TCP pool, then the UDP pool
Refresh ==
  \E rs \in [{ProtocolTCP, ProtocolUDP} -> ProbeResults] :
    LET s1 == refresh(portsPools, ProtocolTCP, rs[ProtocolTCP])
        s2 == IF s1.err THEN s1 ELSE refresh(s1.pools, ProtocolUDP, rs[ProtocolUDP])
        probes == IF s1.err THEN {ProtocolTCP} ELSE {ProtocolTCP, ProtocolUDP}
    IN /\ probed' = Probed(probes, rs)
       /\ portsPools' = s2.pools
       /\ portOp' = [op |-> "refresh", proto |-> "-",
                     err |-> IF s2.err THEN "probe" ELSE "nil", port |-> 0,
                     before |-> portsPools, atPop |-> s2.pools, probes |-> probes]
       /\ runProto' = "none" /\ runStart' = {} /\ runGot' = <<>>
       /\ given' = StillGiven(IF s1.err THEN {}
                              ELSE IF s2.err THEN {ProtocolTCP}
                              ELSE {ProtocolTCP, ProtocolUDP})
       /\ UNCHANGED <<callVars, dispatchVars, storeVars, banVars, extVars, nonPortLater>>

InitPorts ==
  /\ registry = [c \in ClientSet |-> "connected"]
  /\ allowed = ClientSet
  /\ req = [path |-> "rest_cmd", clientIDs |-> <<>>, groupIDs |-> <<>>,
            concurrent |-> FALSE, abortOnError |-> "nil"]
  /\ DispatchIdle
  /\ StoreIdle
  /\ BanIdle
  /\ ExtIdle

NextPorts ==
  \/ \E protocol \in Protocols : GetRandomPort(protocol)
  \/ Refresh

SpecPorts == InitPorts /\ [][NextPorts]_vars

\* the free ports of a protocol in the pools ps
FreePorts(ps, protocol) ==
  IF protocol = ProtocolTCPUDP THEN ps[ProtocolTCP] \cap ps[ProtocolUDP] ELSE ps[protocol]
RangeOf(q) == {q[i] : i \in 1..Len(q)}
\* the ports a probe reports busy: state LISTEN, NONE or empty, and a non-zero port
BusyIn(r) ==
  {n \in 1..(44 + MaxPorts) :
     \E c \in r.conns : c.port = n /\ c.status \in {"LISTEN", "NONE", ""}}

\* C17: in a run of successive GetRandomPort calls for one protocol with no refresh in
\* between, the ports returned are pairwise distinct, are elements of the pool the run
\* started from, and are no longer in the pool; the call that finds the pool empty
\* returns the no-ports error and changes no pool, and then the run has returned
\* exactly the pool it started from.
C17_RunDrainsPool ==
  runProto # "none" =>
    /\ Cardinality(RangeOf(runGot)) = Len(runGot)
    /\ RangeOf(runGot) \cup FreePorts(portsPools, runProto) = runStart
    /\ RangeOf(runGot) \cap FreePorts(portsPools, runProto) = {}
    /\ portOp.err = "no_ports" =>
         /\ RangeOf(runGot) = runStart
         /\ portOp.probes = {} => portsPools = portOp.before

\* a pool of two TCP ports: two calls returned the two ports, the third failed
C17_Witness ==
  /\ runProto = ProtocolTCP
  /\ Cardinality(runStart) = 2
  /\ Len(runGot) = 2
  /\ portOp.err = "no_ports"
  /\ portOp.probes = {}

\* C18: a pool is built as the allowed ports minus the ports the probe reports busy, by
\* GetRandomPort for a sub-protocol that has no pool yet and by every refresh; when
\* the probe of a protocol fails the operation returns the error and that pool is as
\* it was.
C18_PoolIsAllowedMinusBusy ==
  portOp.op \in {"get", "refresh"} =>
    /\ portOp.op = "get" => portOp.probes \subseteq SubSet(portOp.proto) \ DOMAIN portOp.before
    /\ (portOp.op = "get" /\ portOp.err # "probe") =>
          portOp.probes = SubSet(portOp.proto) \ DOMAIN portOp.before
    /\ (portOp.op = "refresh" /\ portOp.err # "probe") =>
          portOp.probes = {ProtocolTCP, ProtocolUDP}
    /\ \A x \in portOp.probes :
         IF probed[x].err
         THEN /\ portOp.err = "probe"
              /\ x \in DOMAIN portsPools <=> x \in DOMAIN portOp.before
              /\ x \in DOMAIN portsPools => portsPools[x] = portOp.before[x]
         ELSE /\ portOp.atPop[x] = allowedPorts \ BusyIn(probed[x])
              /\ portsPools[x] = portOp.atPop[x] \ {portOp.port}

\* a refresh whose UDP probe failed after its TCP probe rebuilt the TCP pool
C18_Witness ==
  /\ portOp.op = "refresh"
  /\ portOp.err = "probe"
  /\ ProtocolTCP \in DOMAIN probed
  /\ ~probed[ProtocolTCP].err
  /\ probed[ProtocolTCP].conns # {}
  /\ ProtocolUDP \in DOMAIN portsPools
  /\ ProtocolTCP \in DOMAIN portsPools
  /\ ProtocolTCP \in DOMAIN portOp.before
  /\ portsPools[ProtocolTCP] # portOp.before[ProtocolTCP]

\* a first GetRandomPort that built the pool from a probe with a connection in it
C18_WitnessLazy ==
  /\ portOp.op = "get"
  /\ portOp.probes # {}
  /\ portOp.err = "nil"
  /\ \E x \in portOp.probes : probed[x].conns # {}

\* C19: GetRandomPort("tcp+udp") returns only a port that is in the TCP pool and in the
\* UDP pool when it is called, the returned port is afterwards in neither pool, and it
\* returns the no-ports error exactly when the two pools have no port in common.
C19_BothPools ==
  (portOp.op = "get" /\ portOp.proto = ProtocolTCPUDP /\ portOp.err # "probe") =>
    /\ portOp.err = "nil" =>
         /\ portOp.port \in portOp.atPop[ProtocolTCP]
         /\ portOp.port \in portOp.atPop[ProtocolUDP]
         /\ portOp.port \notin portsPools[ProtocolTCP]
         /\ portOp.port \notin portsPools[ProtocolUDP]
         /\ portsPools[ProtocolTCP] = portOp.atPop[ProtocolTCP] \ {portOp.port}
         /\ portsPools[ProtocolUDP] = portOp.atPop[ProtocolUDP] \ {portOp.port}
    /\ portOp.err = "no_ports" <=>
         portOp.atPop[ProtocolTCP] \cap portOp.atPop[ProtocolUDP] = {}

\* tcp+udp finds no port although each pool alone has one
C19_Witness ==
  /\ portOp.op = "get"
  /\ portOp.proto = ProtocolTCPUDP
  /\ portOp.err = "no_ports"
  /\ portsPools[ProtocolTCP] # {}
  /\ portsPools[ProtocolUDP] # {}

(***************************************************************************)
(* GetRandomPort under concurrent callers. Both pools exist, so no caller  *)
(* refreshes. The steps are the operations that take a lock: getPool with  *)
(* the Pop that follows it, and the removal from the sub-pools.            *)
(***************************************************************************)
seqVars == <<probed, portOp, runProto, runStart, runGot, given>>

\* a caller enters GetRandomPort(protocol); every sub-protocol has a pool
CallStart(c, protocol) ==
  /\ callPc[c] \in {"idle", "done"}
  /\ SubSet(protocol) \subseteq DOMAIN portsPools
  /\ callPc' = [callPc EXCEPT ![c] = "pop"]
  /\ callProto' = [callProto EXCEPT ![c] = protocol]
  /\ callRes' = [callRes EXCEPT ![c] = -1]
  /\ UNCHANGED <<portsPools, handed, seqVars, dispatchVars, storeVars, banVars, extVars,
                 nonPortLater>>

\* port := d.getPool(protocol).Pop(): for tcp and udp Pop takes the port out of the
\* pool itself, for tcp+udp out of the set Intersect has built
CallPop(c) ==
  /\ callPc[c] = "pop"
  /\ LET pool == getPool(portsPools, callProto[c])
     IN IF pool = {}
        THEN /\ callRes' = [callRes EXCEPT ![c] = 0]
             /\ callPc' = [callPc EXCEPT ![c] = "done"]
             /\ UNCHANGED <<portsPools, handed>>
        ELSE \E port \in pool :
             /\ callRes' = [callRes EXCEPT ![c] = port]
             /\ callPc' = [callPc EXCEPT ![c] = "remove"]
             /\ portsPools' = IF callProto[c] = ProtocolTCPUDP THEN portsPools
                              ELSE TakePort(portsPools, callProto[c], port)
             /\ UNCHANGED handed
  /\ UNCHANGED <<callProto, seqVars, dispatchVars, storeVars, banVars, extVars, nonPortLater>>

\* the port is removed from every sub-pool and returned
CallRemove(c) ==
  /\ callPc[c] = "remove"
  /\ portsPools' = TakePort(portsPools, callProto[c], callRes[c])
  /\ handed' = handed \cup {[proto |-> callProto[c], port |-> callRes[c], caller |-> c]}
  /\ callPc' = [callPc EXCEPT ![c] = "done"]
  /\ UNCHANGED <<callProto, callRes, seqVars, dispatchVars, storeVars, banVars, extVars,
                 nonPortLater>>

\* NewPortDistributorForTests(allowedPorts, tcpPortsPool, udpPortsPool)
InitPortsConc ==
  /\ registry = [c \in ClientSet |-> "connected"]
  /\ allowed = ClientSet
  /\ req = [path |-> "rest_cmd", clientIDs |-> <<>>, groupIDs |-> <<>>,
            concurrent |-> FALSE, abortOnError |-> "nil"]
  /\ DispatchIdle
  /\ StoreIdle
  /\ BanIdle
  /\ ExpIdle
  /\ AuthIdle
  /\ AclIdle
  /\ MoreIdle
  /\ portsPools \in [{ProtocolTCP, ProtocolUDP} -> SUBSET allowedPorts]
  /\ probed = [p \in {} |-> {}]
  /\ portOp = [op |-> "none"]
  /\ runProto = "none"
  /\ runStart = {}
  /\ runGot = <<>>
  /\ given = {}
  /\ callPc = [c \in Callers |-> "idle"]
  /\ callProto = [c \in Callers |-> "-"]
  /\ callRes = [c \in Callers |-> -1]
  /\ handed = {}

NextPortsConc ==
  \/ \E c \in Callers, protocol \in Protocols : CallStart(c, protocol)
  \/ \E c \in Callers : CallPop(c)
  \/ \E c \in Callers : CallRemove(c)

SpecPortsConc == InitPortsConc /\ [][NextPortsConc]_vars

\* two returns of one port clash when their protocols share a sub-protocol
Clash(a, b) == a.port = b.port /\ SubSet(a.proto) \cap SubSet(b.proto) # {}

\* C20: under every interleaving of concurrent GetRandomPort calls with no refresh in
\* between, no port is returned twice for protocols that share a pool.
C20_NoPortTwice ==
  \A a, b \in handed : a # b => ~Clash(a, b)

\* the part of C20 that holds: callers of tcp alone, or of udp alone, never get the
\* same port
C20_SameProtocolDistinct ==
  \A a, b \in handed :
    (a # b /\ a.proto = b.proto /\ a.proto # ProtocolTCPUDP) => a.port # b.port

(***************************************************************************)
(* Client sessions and their tunnels: the tunnel-put handler, StartTunnel,  *)
(* TerminateTunnel and the tunnel IDs.  Tunnels are TCP tunnels; the local   *)
(* port of a tunnel is bound by its listener while the tunnel is in a list.  *)
(***************************************************************************)
TunRemotes == {"r1"}
TunACLs == {"", "a"}
\* the `local` of a request: 0 when not specified, else a server port
TunLocals == {0, 45}

RECURSIVE SeqToSet(_)
SeqToSet(q) == IF q = <<>> THEN {} ELSE {Head(q)} \cup SeqToSet(Tail(q))

\* every active tunnel, with the client session that holds it
ActiveTunnels ==
  UNION {{[client |-> c, i |-> i] : i \in DOMAIN Tunnels[c]} : c \in TunClients}

\* the server ports on which a tunnel listener is bound
Listening == {Tunnels[x.client][x.i].local : x \in ActiveTunnels}

\* what the OS lists for TCP while the tunnels of the lists listen
OsProbe == [err |-> FALSE, conns |-> {[status |-> "LISTEN", port |-> p] : p \in Listening}]
\* the answer of a probe of the OS: the listeners, or an error
OsAnswer(probeErr) == IF probeErr THEN [err |-> TRUE, conns |-> {}] ELSE OsProbe

\* Tunnel.Equals(remote): the same local and remote address
TunnelEquals(t, local, remote) == t.local = local /\ t.remote = remote

\* an active tunnel with the local, remote and ACL of the request q is in the list ts
HasIdentical(ts, q) ==
  \E i \in 1..Len(ts) :
    ts[i].local = q.local /\ ts[i].remote = q.remote /\ ts[i].acl = q.acl

\* c.findTunnelByRemote(r): the first tunnel equal to the remote, 0 when none
findTunnelByRemote(ts, local, remote) ==
  IF \E i \in 1..Len(ts) : TunnelEquals(ts[i], local, remote)
  THEN CHOOSE i \in 1..Len(ts) :
         /\ TunnelEquals(ts[i], local, remote)
         /\ \A j \in 1..(i - 1) : ~TunnelEquals(ts[j], local, remote)
  ELSE 0

\* generateNewTunnelID as it would be if it numbered the tunnels of the list
generateNewTunnelID_Reuse(c) == Len(Tunnels[c]) + 1

\* c.generateNewTunnelID(): atomic.AddInt64(&c.tunnelIDAutoIncrement, 1)
generateNewTunnelID(c) == tunnelIDAutoIncrement[c] + 1

\* the tunnel list as it would be if a tunnel that failed to start were kept
AppendStarted_IgnoreErr(ts, t, startErr) == Append(ts, t)

\* the tail of StartTunnel: the tunnel joins the list unless t.Start failed
AppendStarted(ts, t, startErr) == IF startErr THEN ts ELSE Append(ts, t)

\* c.removeTunnel(t): the list without the tunnels of that ID
RECURSIVE removeTunnel(_, _)
removeTunnel(ts, id) ==
  IF ts = <<>> THEN <<>>
  ELSE IF Head(ts).id = id THEN removeTunnel(Tail(ts), id)
  ELSE <<Head(ts)>> \o removeTunnel(Tail(ts), id)

tunRest == <<dispatchVars, storeVars, banVars, extVars, authVars, aclVars,
             probed, portOp, runProto, runStart, runGot, given, callPc, callProto, callRes,
             handed, tunOthers>>

\* a tunnel-put request arrives for a client, with its remote, local and ACL
PutReceive(r, c, local, remote, acl) ==
  /\ treq[r].pc = "idle"
  /\ treq' = [treq EXCEPT ![r] = [pc |-> "check", client |-> c, local |-> local,
                                  remote |-> remote, acl |-> acl, port |-> 0,
                                  resp |-> "-", tid |-> 0, dup |-> FALSE]]
  /\ UNCHANGED <<Tunnels, tunnelIDAutoIncrement, issued, tunLock, portsPools, tunRest>>

\* handlePutClientTunnel up to client.Lock(): the identical-tunnel checks
PutCheck(r) ==
  LET q == treq[r]
      ts == Tunnels[q.client]
  IN /\ q.pc = "check"
     /\ treq' = [treq EXCEPT ![r] =
          IF findTunnelByRemote(ts, q.local, q.remote) # 0
          THEN [q EXCEPT !.pc = "done", !.resp = "ERR_CODE_TUNNEL_EXIST",
                         !.dup = HasIdentical(ts, q)]
          ELSE IF \E i \in 1..Len(ts) : ts[i].remote = q.remote /\ ts[i].acl = q.acl
          THEN [q EXCEPT !.pc = "done", !.resp = "ERR_CODE_TUNNEL_TO_PORT_EXIST",
                         !.dup = HasIdentical(ts, q)]
          ELSE [q EXCEPT !.pc = "lock"]]
     /\ UNCHANGED <<Tunnels, tunnelIDAutoIncrement, issued, tunLock, portsPools, tunRest>>

\* client.Lock(), then under the lock checkLocalPort for a specified local, else a
\* port of the pool; the lock is kept while the request goes on to StartTunnel;
\* probeErr tells whether a probe of the OS made by this step fails
PutPort(r, probeErr) ==
  LET q == treq[r]
      e == EnsurePools(portsPools, ProtocolTCP,
                       [x \in {ProtocolTCP, ProtocolUDP} |-> OsAnswer(probeErr)])
      pool == IF e.err THEN {} ELSE getPool(e.pools, ProtocolTCP)
  IN /\ q.pc = "lock"
     /\ tunLock[q.client] = 0
     /\ IF q.local # 0
        THEN /\ portsPools' = portsPools
             /\ IF probeErr
                THEN /\ treq' = [treq EXCEPT ![r] =
                          [q EXCEPT !.pc = "done", !.resp = "probe failed"]]
                     /\ tunLock' = tunLock
                ELSE IF q.local \in ListBusyPorts(OsProbe)
                THEN /\ treq' = [treq EXCEPT ![r] =
                          [q EXCEPT !.pc = "done", !.resp = "ERR_CODE_LOCAL_PORT_IN_USE",
                                    !.dup = HasIdentical(Tunnels[q.client], q)]]
                     /\ tunLock' = tunLock
                ELSE /\ treq' = [treq EXCEPT ![r] =
                          [q EXCEPT !.pc = "start", !.port = q.local]]
                     /\ tunLock' = [tunLock EXCEPT ![q.client] = r]
        ELSE IF pool = {}
        THEN /\ portsPools' = e.pools
             /\ treq' = [treq EXCEPT ![r] = [q EXCEPT !.pc = "done", !.resp = "no ports"]]
             /\ tunLock' = tunLock
        ELSE \E port \in pool :
               /\ portsPools' = TakePort(e.pools, ProtocolTCP, port)
               /\ treq' = [treq EXCEPT ![r] = [q EXCEPT !.pc = "start", !.port = port]]
               /\ tunLock' = [tunLock EXCEPT ![q.client] = r]
     /\ UNCHANGED <<Tunnels, tunnelIDAutoIncrement, issued, tunRest>>

\* c.StartTunnel(remote, acl), then the deferred client.Unlock() and the answer;
\* fails is a failure of t.Start other than the bind of the local port
PutStart(r, fails) ==
  LET q == treq[r]
      c == q.client
      ts == Tunnels[c]
      found == findTunnelByRemote(ts, q.port, q.remote)
      id == generateNewTunnelID(c)
      t == [id |-> id, local |-> q.port, remote |-> q.remote, acl |-> q.acl]
      startErr == fails \/ q.port \in Listening
  IN /\ q.pc = "start"
     /\ tunLock' = [tunLock EXCEPT ![c] = 0]
     /\ IF found # 0
        THEN /\ treq' = [treq EXCEPT ![r] =
                  [q EXCEPT !.pc = "done", !.resp = "ok", !.port = 0,
                            !.tid = ts[found].id, !.dup = HasIdentical(ts, q)]]
             /\ UNCHANGED <<Tunnels, tunnelIDAutoIncrement, issued>>
        ELSE /\ tunnelIDAutoIncrement' = [tunnelIDAutoIncrement EXCEPT ![c] = id]
             /\ issued' = [issued EXCEPT ![c] = Append(@, id)]
             /\ Tunnels' = [Tunnels EXCEPT ![c] = AppendStarted(ts, t, startErr)]
             /\ treq' = [treq EXCEPT ![r] =
                  IF startErr
                  THEN [q EXCEPT !.pc = "done", !.resp = "start failed", !.port = 0,
                                 !.dup = HasIdentical(ts, q)]
                  ELSE [q EXCEPT !.pc = "done", !.resp = "created", !.port = 0,
                                 !.tid = id]]
     /\ UNCHANGED <<portsPools, tunRest>>

\* handleDeleteClientTunnel: under the lock, FindTunnel(id) and TerminateTunnel
TunTerminate(c, id) ==
  /\ tunLock[c] = 0
  /\ \E i \in 1..Len(Tunnels[c]) : Tunnels[c][i].id = id
  /\ Tunnels' = [Tunnels EXCEPT ![c] = removeTunnel(@, id)]
  /\ UNCHANGED <<tunnelIDAutoIncrement, issued, tunLock, treq, portsPools, tunRest>>

\* d.Refresh() of the TCP pool while tunnels are active
TunRefresh ==
  /\ portsPools' = refresh(portsPools, ProtocolTCP, OsProbe).pools
  /\ portsPools' # portsPools
  /\ UNCHANGED <<Tunnels, tunnelIDAutoIncrement, issued, tunLock, treq, tunRest>>

InitTunnels ==
  /\ registry = [c \in ClientSet |-> "connected"]
  /\ allowed = ClientSet
  /\ req = [path |-> "rest_cmd", clientIDs |-> <<>>, groupIDs |-> <<>>,
            concurrent |-> FALSE, abortOnError |-> "nil"]
  /\ DispatchIdle
  /\ StoreIdle
  /\ BanIdle
  /\ ExtIdle

NextTunnels ==
  \/ \E r \in PutRequests, c \in TunClients, local \in TunLocals,
        remote \in TunRemotes, acl \in TunACLs : PutReceive(r, c, local, remote, acl)
  \/ \E r \in PutRequests : PutCheck(r)
  \/ \E r \in PutRequests, probeErr \in BOOLEAN : PutPort(r, probeErr)
  \/ \E r \in PutRequests, fails \in BOOLEAN : PutStart(r, fails)
  \/ \E c \in TunClients, id \in 1..MaxPutRequests : TunTerminate(c, id)
  \/ TunRefresh

SpecTunnels == InitTunnels /\ [][NextTunnels]_vars

\* C21: within one client session the tunnel IDs issued by StartTunnel are strictly
\* increasing, so none is issued twice, also after a termination or a failed start,
\* and no two tunnels of the client's list share an ID.
C21_TunnelIDsIncrease ==
  \A c \in TunClients :
    /\ \A i, j \in 1..Len(issued[c]) : i < j => issued[c][i] < issued[c][j]
    /\ \A i, j \in 1..Len(Tunnels[c]) : i # j => Tunnels[c][i].id # Tunnels[c][j].id
    /\ \A i \in 1..Len(Tunnels[c]) : Tunnels[c][i].id \in SeqToSet(issued[c])

\* a second ID was issued after the first tunnel was terminated or failed to start
C21_Witness ==
  \E c \in TunClients :
    /\ Len(issued[c]) >= 2
    /\ Len(Tunnels[c]) = 1
    /\ Tunnels[c][1].id = issued[c][Len(issued[c])]

C22_WitnessTwoClients ==
  \E x, y \in ActiveTunnels, a, b \in PutRequests :
    /\ x.client # y.client
    /\ treq[a].resp = "created" /\ treq[a].local # 0
    /\ treq[b].resp = "created" /\ treq[b].local = 0

\* the answers that report an existing tunnel
ExistsAnswers == {"ERR_CODE_TUNNEL_EXIST", "ERR_CODE_TUNNEL_TO_PORT_EXIST"}
SameTunnelRequest(a, b) ==
  a.client = b.client /\ a.local = b.local /\ a.remote = b.remote /\ a.acl = b.acl
TunnelIDs(c) == {Tunnels[c][i].id : i \in 1..Len(Tunnels[c])}

\* C23: tunnel creation on one client is serialized together with the identical-
\* tunnel check: of two requests with the same local, remote and ACL at most one has
\* its tunnel in the list, and a request answered while an identical tunnel is active
\* is answered `exists`.
C23_IdenticalSerialized ==
  /\ \A a, b \in PutRequests :
       (/\ a # b
        /\ SameTunnelRequest(treq[a], treq[b])
        /\ treq[a].resp = "created"
        /\ treq[b].resp = "created")
         => ~({treq[a].tid, treq[b].tid} \subseteq TunnelIDs(treq[a].client))
  /\ \A r \in PutRequests :
       (treq[r].pc = "done" /\ treq[r].dup) => treq[r].resp \in ExistsAnswers

(***************************************************************************)
(* Termination of the sequential execution of a MultiJob                   *)
(***************************************************************************)
\* the steps of the server and of the UI: every step of the dispatcher but the
\* client's cmd_result
ServerStep ==
  \/ (HandleResolve /\ UNCHANGED <<lastOp, banVars, extVars, laterVars>>)
  \/ (PushScript /\ UNCHANGED <<lastOp, banVars, extVars, laterVars>>)
  \/ (HandleValidate /\ UNCHANGED <<lastOp, banVars, extVars, laterVars>>)
  \/ (HandleAuthorize /\ UNCHANGED <<lastOp, banVars, extVars, laterVars>>)
  \/ (HandleCreateMultiJob /\ UNCHANGED <<lastOp, banVars, extVars, laterVars>>)
  \/ (ExecStart /\ UNCHANGED <<lastOp, banVars, extVars, laterVars>>)
  \/ (LoopStep /\ UNCHANGED <<lastOp, banVars, extVars, laterVars>>)
  \/ (LoopEnd /\ UNCHANGED <<lastOp, banVars, extVars, laterVars>>)
  \/ (LoopReturn /\ UNCHANGED <<lastOp, banVars, extVars, laterVars>>)
  \/ (LoopReceive /\ UNCHANGED <<lastOp, banVars, extVars, laterVars>>)
  \/ (SingleStart /\ UNCHANGED <<lastOp, banVars, extVars, laterVars>>)
  \/ (SingleReturn /\ UNCHANGED <<lastOp, banVars, extVars, laterVars>>)
  \/ (UIClose /\ UNCHANGED <<lastOp, banVars, extVars, laterVars>>)
  \/ (ExecEnd /\ UNCHANGED <<lastOp, banVars, extVars, laterVars>>)
  \/ (ExecDel /\ UNCHANGED <<lastOp, banVars, extVars, laterVars>>)
  \/ \E i \in 1..N : (RunJobSend(i) /\ UNCHANGED <<lastOp, banVars, extVars, laterVars>>)
  \/ \E i \in 1..N : (RunJobCreate(i) /\ UNCHANGED <<lastOp, banVars, extVars, laterVars>>)

\* the goroutines of the server are scheduled and the UI closes its connection in the
\* end; a client is free to report the result of a command or not
SpecLive == Init /\ [][Next]_vars /\ WF_vars(ServerStep)

\* C24: every sequential execution of a MultiJob terminates in the end and removes
\* its entry from the table of done-channels, whatever the clients do.
C24_SequentialTerminates ==
  (chanState = "open") ~> (dpc = "done" /\ HandlerJid \notin chanTable)

(***************************************************************************)
(* Translation of list options to a query.  A text is a sequence of atoms:  *)
(* words, and the separators below; joining two texts joins the word that   *)
(* ends the first with the word that begins the second.                     *)
(***************************************************************************)
MaxFilters == 2
MaxValues == 2
MaxSorts == 2

Separators == {" ", ",", "(", ")", "?", "*", "."}

\* the text a followed by the text b
Cat(a, b) ==
  IF a = <<>> THEN b
  ELSE IF b = <<>> THEN a
  ELSE IF a[Len(a)] \notin Separators /\ b[1] \notin Separators
  THEN SubSeq(a, 1, Len(a) - 1) \o <<a[Len(a)] \o b[1]>> \o Tail(b)
  ELSE a \o b

\* strings.Join(parts, sep)
RECURSIVE Join(_, _)
Join(parts, sep) ==
  IF parts = <<>> THEN <<>>
  ELSE IF Len(parts) = 1 THEN parts[1]
  ELSE Cat(Cat(parts[1], sep), Join(Tail(parts), sep))

\* strings.ToUpper, on the words of the queries used here
UpperWord(w) ==
  IF w = "select" THEN "SELECT"
  ELSE IF w = "from" THEN "FROM"
  ELSE IF w = "where" THEN "WHERE"
  ELSE w
ToUpper(q) == [i \in 1..Len(q) |-> UpperWord(q[i])]

\* strings.Contains(q, part)
Contains_Text(q, part) ==
  \E i \in 1..(Len(q) - Len(part) + 1) : SubSeq(q, i, i + Len(part) - 1) = part

\* strings.HasPrefix(q, part)
HasPrefix(q, part) == Len(q) >= Len(part) /\ SubSeq(q, 1, Len(part)) = part

\* fmt.Sprintf("%s %s ?", column, operator code) as it would be with the value in
\* the text
Condition_Inline(f, value) == <<f.column, " ", f.operator, " ", value>>

\* fmt.Sprintf("%s %s ?", column, operator code)
Condition(f, value) == <<f.column, " ", f.operator, " ", "?">>

\* the where part of one filter option
WherePart(f) ==
  IF Len(f.values) = 1
  THEN Condition(f, f.values[1])
  ELSE Cat(Cat(<<"(">>,
               Join([y \in 1..Len(f.values) |-> Condition(f, f.values[y])],
                    <<" ", "OR", " ">>)),
           <<")">>)

RECURSIVE FilterParams(_)
FilterParams(filterOptions) ==
  IF filterOptions = <<>> THEN <<>>
  ELSE Head(filterOptions).values \o FilterParams(Tail(filterOptions))

\* addWhere(filterOptions, q)
addWhere(filterOptions, q) ==
  IF Len(filterOptions) = 0 THEN [q |-> q, params |-> <<>>]
  ELSE LET whereParts == [i \in 1..Len(filterOptions) |-> WherePart(filterOptions[i])]
           concat == IF Contains_Text(ToUpper(q), <<" ", "WHERE", " ">>)
                     THEN <<" ", "AND", " ">> ELSE <<" ", "WHERE", " ">>
       IN [q |-> Cat(Cat(Cat(q, concat), Join(whereParts, <<" ", "AND", " ">>)), <<" ">>),
           params |-> FilterParams(filterOptions)]

\* addOrderBy(sortOptions, q)
addOrderBy(sortOptions, q) ==
  IF Len(sortOptions) = 0 THEN q
  ELSE LET orderByValues ==
             [i \in 1..Len(sortOptions) |->
                <<sortOptions[i].column, " ",
                  IF sortOptions[i].isASC THEN "ASC" ELSE "DESC">>]
       IN Cat(Cat(q, <<"ORDER", " ", "BY", " ">>), Join(orderByValues, <<",", " ">>))

\* the fields of the field options, as resource.field
RECURSIVE FieldList(_)
FieldList(fieldOptions) ==
  IF fieldOptions = <<>> THEN <<>>
  ELSE [i \in 1..Len(Head(fieldOptions).fields) |->
          <<Head(fieldOptions).resource, ".", Head(fieldOptions).fields[i]>>]
       \o FieldList(Tail(fieldOptions))

\* strings.Replace(q, "*", new, 1)
ReplaceFirstStar(q, new) ==
  IF \E i \in 1..Len(q) : q[i] = "*"
  THEN LET i == CHOOSE k \in 1..Len(q) : q[k] = "*" /\ \A j \in 1..(k - 1) : q[j] # "*"
       IN Cat(Cat(SubSeq(q, 1, i - 1), new), SubSeq(q, i + 1, Len(q)))
  ELSE q

\* ReplaceStarSelect(fieldOptions, q)
ReplaceStarSelect(fieldOptions, q) ==
  IF ~HasPrefix(ToUpper(q), <<"SELECT", " ", "*", " ">>) THEN q
  ELSE IF Len(fieldOptions) = 0 THEN q
  ELSE ReplaceFirstStar(q, Join(FieldList(fieldOptions), <<",", " ">>))

\* ConvertListOptionsToQuery(lo, q)
ConvertListOptionsToQuery(lo, q) ==
  LET w == addWhere(lo.filters, q)
  IN [q |-> ReplaceStarSelect(lo.fields, addOrderBy(lo.sorts, w.q)),
      params |-> w.params]

\* the inputs: filter options with one value at least, sort options, field options,
\* an optional pagination, and a query with or without a where clause
SeqsFrom(S, lo, hi) == UNION {[1..k -> S] : k \in lo..hi}
FilterOptions ==
  {[column |-> "field1", operator |-> "=", values |-> v] :
     v \in SeqsFrom({"val1", "val2"}, 1, MaxValues)}
  \cup {[column |-> "field2", operator |-> ">", values |-> v] :
          v \in SeqsFrom({"val1", "val2"}, 1, MaxValues)}
SortOptions ==
  {[column |-> "field1", isASC |-> TRUE], [column |-> "field2", isASC |-> FALSE],
   [column |-> "field1", isASC |-> FALSE]}
FieldsOptions ==
  {<<>>, <<[resource |-> "res1", fields |-> <<"field1">>]>>,
   <<[resource |-> "res1", fields |-> <<"field1", "field2">>]>>}
Paginations == {<<>>, <<[limit |-> "5", offset |-> "10"]>>}
ListOptionsSet ==
  [filters : SeqsFrom(FilterOptions, 0, MaxFilters),
   sorts : SeqsFrom(SortOptions, 0, MaxSorts),
   fields : FieldsOptions,
   pagination : Paginations]
BaseQueries ==
  {<<"SELECT", " ", "*", " ", "FROM", " ", "res1">>,
   <<"select", " ", "*", " ", "from", " ", "res1", " ", "where", " ", "deleted", " ",
     "=", " ", "0">>}

\* the caller calls ConvertListOptionsToQuery(lo, q)
QryConvert ==
  /\ qryPc = "idle"
  /\ qryPc' = "done"
  /\ qryOut' = ConvertListOptionsToQuery(qryLo, qryQ)
  /\ UNCHANGED <<qryLo, qryQ, nonQryMore>>

InitQuery ==
  /\ OldIdle
  /\ MoreIdleButQry
  /\ qryPc = "idle"
  /\ qryLo \in ListOptionsSet
  /\ qryQ \in BaseQueries
  /\ qryOut = [q |-> <<>>, params |-> <<>>]

NextQuery == QryConvert

SpecQuery == InitQuery /\ [][NextQuery]_vars

\* how often the atom a occurs in the text q
Count(q, a) == Cardinality({i \in 1..Len(q) : q[i] = a})

\* the list options with every filter value replaced by one and the same value
Blank(lo) ==
  [lo EXCEPT !.filters =
     [i \in 1..Len(lo.filters) |->
        [lo.filters[i] EXCEPT !.values = [y \in 1..Len(lo.filters[i].values) |-> "v"]]]]

\* the column in front of each placeholder of the text, in order
RECURSIVE PlaceholderColumns(_, _)
PlaceholderColumns(q, i) ==
  IF i > Len(q) THEN <<>>
  ELSE IF q[i] = "?" /\ i > 4 THEN <<q[i - 4]>> \o PlaceholderColumns(q, i + 1)
  ELSE PlaceholderColumns(q, i + 1)

\* the column of each filter value, in filter order then value order
RECURSIVE ValueColumns(_)
ValueColumns(filterOptions) ==
  IF filterOptions = <<>> THEN <<>>
  ELSE [y \in 1..Len(Head(filterOptions).values) |-> Head(filterOptions).column]
       \o ValueColumns(Tail(filterOptions))

\* the words of the text from its first atom ORDER on
RECURSIVE Words(_)
Words(q) ==
  IF q = <<>> THEN <<>>
  ELSE IF Head(q) \in Separators THEN Words(Tail(q))
  ELSE <<Head(q)>> \o Words(Tail(q))
OrderByWords(q) ==
  IF \E i \in 1..Len(q) : q[i] = "ORDER"
  THEN Words(SubSeq(q, CHOOSE i \in 1..Len(q) :
                         q[i] = "ORDER" /\ \A j \in 1..(i - 1) : q[j] # "ORDER",
                    Len(q)))
  ELSE <<>>
RECURSIVE SortWords(_)
SortWords(sortOptions) ==
  IF sortOptions = <<>> THEN <<>>
  ELSE <<Head(sortOptions).column, IF Head(sortOptions).isASC THEN "ASC" ELSE "DESC">>
       \o SortWords(Tail(sortOptions))

MultiValued(lo) == {i \in 1..Len(lo.filters) : Len(lo.filters[i].values) # 1}

\* one placeholder per filter value and the values as binds, in filter order then
\* value order; the text does not depend on the values; the values of one filter are
\* OR-ed in parentheses and the filters AND-ed
BindsMatchPlaceholders ==
  /\ Count(qryOut.q, "?") - Count(qryQ, "?") = Len(qryOut.params)
  /\ qryOut.params = FilterParams(qryLo.filters)
  /\ PlaceholderColumns(qryOut.q, 1) = ValueColumns(qryLo.filters)
  /\ qryOut.q = ConvertListOptionsToQuery(Blank(qryLo), qryQ).q
  /\ Count(qryOut.q, "OR") = Len(qryOut.params) - Len(qryLo.filters)
  /\ Count(qryOut.q, "(") = Cardinality(MultiValued(qryLo))
  /\ Count(qryOut.q, ")") = Cardinality(MultiValued(qryLo))
  /\ qryLo.filters # <<>> =>
       Count(qryOut.q, "AND") + Count(qryOut.q, "WHERE")
         = Count(qryQ, "AND") + Count(qryQ, "WHERE") + Len(qryLo.filters)

\* the sorts are a comma-separated ORDER BY, in the given order
SortsAreOrderBy ==
  qryLo.sorts # <<>> =>
    /\ OrderByWords(qryOut.q) = <<"ORDER", "BY">> \o SortWords(qryLo.sorts)
    /\ Count(qryOut.q, ",") - Count(ReplaceStarSelect(qryLo.fields, qryQ), ",")
         = Len(qryLo.sorts) - 1

\* a leading SELECT * is replaced by the projection resource.field
StarIsProjection ==
  qryLo.fields # <<>> =>
    /\ Count(qryOut.q, "*") = 0
    /\ SubSeq(qryOut.q, 3, 2 + Len(Join(FieldList(qryLo.fields), <<",", " ">>)))
         = Join(FieldList(qryLo.fields), <<",", " ">>)

\* C25: ConvertListOptionsToQuery emits one `?` per filter value, the values of a
\* filter OR-ed in parentheses and the filters AND-ed in order, and returns the values
\* as binds in filter order then value order, so that binds and placeholders agree in
\* number and the text does not depend on the values; the sorts become a comma-
\* separated ORDER BY in their order, and a leading SELECT * becomes the projection.
C25_TranslationParameterized ==
  qryPc = "done" => (BindsMatchPlaceholders /\ SortsAreOrderBy /\ StarIsProjection)

\* the part of C25 about the filters and the projection, which holds
C25_FiltersParameterized ==
  qryPc = "done" => (BindsMatchPlaceholders /\ StarIsProjection)

\* the ORDER BY of C25 for options with a filter, which holds
C25_OrderByAfterWhere ==
  (qryPc = "done" /\ qryLo.filters # <<>>) => SortsAreOrderBy

\* the text ends with the atoms of part
HasSuffix(q, part) ==
  Len(q) >= Len(part) /\ SubSeq(q, Len(q) - Len(part) + 1, Len(q)) = part

\* C26: with a pagination the query ends with LIMIT ? OFFSET ?, after the ORDER BY,
\* and the binds end with the limit and then the offset, after the filter binds;
\* with no options at all the query comes back unchanged, with no binds.
C26_PaginationAppended ==
  qryPc = "done" =>
    /\ qryLo.pagination # <<>> =>
         /\ HasSuffix(qryOut.q, <<"LIMIT", " ", "?", " ", "OFFSET", " ", "?">>)
         /\ qryOut.params = FilterParams(qryLo.filters)
                              \o <<qryLo.pagination[1].limit, qryLo.pagination[1].offset>>
    /\ qryLo = NoListOptions => (qryOut.q = qryQ /\ qryOut.params = <<>>)

\* the part of C26 that holds: no options, or a pagination alone, leave the query
\* unchanged and give no binds
C26_NoOptionsUnchanged ==
  (/\ qryPc = "done"
   /\ qryLo.filters = <<>> /\ qryLo.sorts = <<>> /\ qryLo.fields = <<>>)
    => (qryOut.q = qryQ /\ qryOut.params = <<>>)

(***************************************************************************)
(* The jobs of a MultiJob in the job store, as TestGetByMultiJobID uses it *)
(***************************************************************************)
MaxMjJobs == 3
MaxMjTime == 2

\* the multi_job_id of a job: none, or one of two MultiJobs
MjIDs == {"", "1234", "4321"}
\* a job: started_at is a time, finished_at a time or 0 for a job not finished
MjJobSet ==
  [jid : 1..MaxMjJobs, multiJobID : MjIDs, startedAt : 1..MaxMjTime,
   finishedAt : 0..MaxMjTime]

\* p.SaveJob(job): the row of that jid is created or replaced
MjSaveJob(j) ==
  /\ mjJobs' = [k \in DOMAIN mjJobs \cup {j.jid} |-> IF k = j.jid THEN j ELSE mjJobs[k]]
  /\ mjGot' = [mjid |-> "-", jobs |-> <<>>]
  /\ UNCHANGED nonMjMore

\* the order of the list as it would be if it were by jid alone
ComesFirst_ByJid(a, b) == a.jid < b.jid

\* the order of the list that TestGetByMultiJobID expects: job5, started a second
\* after job3, comes first, and job3 and job4, started together, follow by jid
ComesFirst(a, b) ==
  \/ a.startedAt > b.startedAt
  \/ a.startedAt = b.startedAt /\ a.jid < b.jid

RECURSIVE SortJobs(_)
SortJobs(S) ==
  IF S = {} THEN <<>>
  ELSE LET first == CHOOSE a \in S : \A b \in S \ {a} : ComesFirst(a, b)
       IN <<first>> \o SortJobs(S \ {first})

\* p.GetByMultiJobID(multiJobID)
MjGetByMultiJobID(mjid) ==
  /\ mjGot' = [mjid |-> mjid,
               jobs |-> SortJobs({mjJobs[k] : k \in {x \in DOMAIN mjJobs :
                                                      mjJobs[x].multiJobID = mjid}})]
  /\ UNCHANGED <<mjJobs, nonMjMore>>

InitMulti ==
  /\ OldIdle
  /\ MoreIdleButMj
  /\ mjJobs = [k \in {} |-> 0]
  /\ mjGot = [mjid |-> "-", jobs |-> <<>>]

NextMulti ==
  \/ \E j \in MjJobSet : MjSaveJob(j)
  \/ \E mjid \in MjIDs \ {""} : MjGetByMultiJobID(mjid)

SpecMulti == InitMulti /\ [][NextMulti]_vars

\* the list holds exactly the stored jobs of the MultiJob, each once
GotExactlyTheJobs ==
  /\ {mjGot.jobs[i] : i \in 1..Len(mjGot.jobs)}
       = {mjJobs[k] : k \in {x \in DOMAIN mjJobs : mjJobs[x].multiJobID = mjGot.mjid}}
  /\ \A i, j \in 1..Len(mjGot.jobs) : i # j => mjGot.jobs[i] # mjGot.jobs[j]

\* a before b by finished_at descending, then started_at ascending, then jid ascending
FinishedOrder(a, b) ==
  \/ a.finishedAt > b.finishedAt
  \/ a.finishedAt = b.finishedAt /\ a.startedAt < b.startedAt
  \/ a.finishedAt = b.finishedAt /\ a.startedAt = b.startedAt /\ a.jid < b.jid

\* C27: GetByMultiJobID returns exactly the stored jobs of that MultiJob, ordered by
\* finished_at descending, then started_at ascending, then jid ascending.
C27_OrderedByFinishedAt ==
  mjGot.mjid # "-" =>
    /\ \A i \in 1..Len(mjGot.jobs) : mjGot.jobs[i].multiJobID = mjGot.mjid
    /\ \A i, j \in 1..Len(mjGot.jobs) :
         i < j => FinishedOrder(mjGot.jobs[i], mjGot.jobs[j])

\* the part of C27 that holds: the list holds the jobs of the MultiJob and no other
C27_ExactlyTheJobs ==
  mjGot.mjid # "-" => GotExactlyTheJobs

\* the jobs 3, 4 and 5 of TestGetByMultiJobID and the list the test expects
C27_TestCase ==
  /\ mjGot.mjid = "1234"
  /\ mjGot.jobs = <<[jid |-> 3, multiJobID |-> "1234", startedAt |-> 2, finishedAt |-> 1],
                    [jid |-> 1, multiJobID |-> "1234", startedAt |-> 1, finishedAt |-> 2],
                    [jid |-> 2, multiJobID |-> "1234", startedAt |-> 1, finishedAt |-> 0]>>

(***************************************************************************)
(* The ports of the server configuration: used_ports and excluded_ports    *)
(* are lists of port expressions, a number or a range `from-to`.           *)
(***************************************************************************)
MaxPortNum == 3
MaxPortExprs == 2

\* the numbers a text can stand for; "70000" is no port and "a" no number
NumberTexts == {"1", "2", "3", "4", "70000"}
NumberOf(w) ==
  IF w = "1" THEN 1 ELSE IF w = "2" THEN 2 ELSE IF w = "3" THEN 3
  ELSE IF w = "4" THEN 4 ELSE 70000
TextOf(n) == CHOOSE w \in NumberTexts : NumberOf(w) = n
MaxPortNumber == 65535

\* a port number in a port expression: [err, port]
ParsePortNumber(w) ==
  IF w \notin NumberTexts THEN [err |-> "can't parse port number", port |-> 0]
  ELSE IF NumberOf(w) < 1 \/ NumberOf(w) > MaxPortNumber
  THEN [err |-> "invalid port number", port |-> 0]
  ELSE [err |-> "", port |-> NumberOf(w)]

\* a port expression, a number or from-to: [err, ports]
ParsePortExpr(e) ==
  LET from == ParsePortNumber(e[1])
      to == ParsePortNumber(e[Len(e)])
  IN IF from.err # "" THEN [err |-> from.err, ports |-> {}]
     ELSE IF to.err # "" THEN [err |-> to.err, ports |-> {}]
     ELSE [err |-> "", ports |-> from.port..to.port]

\* a list of port expressions: the first error, or the union of the ports
RECURSIVE ParsePortList(_)
ParsePortList(es) ==
  IF es = <<>> THEN [err |-> "", ports |-> {}]
  ELSE LET h == ParsePortExpr(Head(es))
           t == ParsePortList(Tail(es))
       IN IF h.err # "" THEN h
          ELSE IF t.err # "" THEN t
          ELSE [err |-> "", ports |-> h.ports \cup t.ports]

\* the validation as it would be if excluded_ports were ignored
parseAndValidatePorts_NoExclude(used, excluded) ==
  LET u == ParsePortList(used)
      x == ParsePortList(excluded)
  IN IF u.err # "" THEN [err |-> "can't parse 'used_ports'", allowed |-> {}]
     ELSE IF x.err # "" THEN [err |-> "can't parse 'excluded_ports'", allowed |-> {}]
     ELSE IF u.ports = {} THEN [err |-> "at least one port", allowed |-> {}]
     ELSE [err |-> "", allowed |-> u.ports]

\* ServerConfig.parseAndValidatePorts: [err, allowed]
parseAndValidatePorts(used, excluded) ==
  LET u == ParsePortList(used)
      x == ParsePortList(excluded)
  IN IF u.err # "" THEN [err |-> "can't parse 'used_ports'", allowed |-> {}]
     ELSE IF x.err # "" THEN [err |-> "can't parse 'excluded_ports'", allowed |-> {}]
     ELSE IF u.ports \ x.ports = {} THEN [err |-> "at least one port", allowed |-> {}]
     ELSE [err |-> "", allowed |-> u.ports \ x.ports]

\* the port expressions of the configuration: numbers, ranges, and two invalid ones
PortExprs ==
  {<<TextOf(n)>> : n \in 1..MaxPortNum}
    \cup {<<TextOf(a), "-", TextOf(b)>> : a \in 1..MaxPortNum, b \in 2..MaxPortNum}
    \cup {<<"a">>, <<"70000">>}
ValidPortExprs ==
  {e \in PortExprs : e \notin {<<"a">>, <<"70000">>} /\ NumberOf(e[1]) <= NumberOf(e[Len(e)])}
PortLists == SeqsFrom(ValidPortExprs \cup {<<"a">>, <<"70000">>}, 0, MaxPortExprs)

\* main: cfg.ParseAndValidate(), and log.Fatal(err) when it fails
CfgParseAndValidate ==
  LET r == parseAndValidatePorts(cfgUsed, cfgExcluded)
  IN /\ cfgPc = "idle"
     /\ cfgErr' = r.err
     /\ cfgAllowed' = r.allowed
     /\ cfgPc' = IF r.err # "" THEN "fatal" ELSE "valid"
     /\ UNCHANGED <<cfgUsed, cfgExcluded, srvPorts, nonCfgMore>>

\* NewServer: ports.NewPortDistributor(config.AllowedPorts())
CfgNewServer ==
  /\ cfgPc = "valid"
  /\ cfgPc' = "started"
  /\ srvPorts' = cfgAllowed
  /\ UNCHANGED <<cfgUsed, cfgExcluded, cfgAllowed, cfgErr, nonCfgMore>>

InitConfig ==
  /\ OldIdle
  /\ MoreIdleButCfg
  /\ cfgUsed \in PortLists
  /\ cfgExcluded \in PortLists
  /\ cfgPc = "idle"
  /\ cfgAllowed = {}
  /\ cfgErr = ""
  /\ srvPorts = {}

NextConfig ==
  \/ CfgParseAndValidate
  \/ CfgNewServer

SpecConfig == InitConfig /\ [][NextConfig]_vars

\* the port expression is a number or a range of port numbers
IsPortExpr(e) == e \in ValidPortExprs
\* the port p is covered by an expression of the list
Covered(p, es) ==
  \E i \in 1..Len(es) :
    IsPortExpr(es[i]) /\ NumberOf(es[i][1]) <= p /\ p <= NumberOf(es[i][Len(es[i])])
AllValid(es) == \A i \in 1..Len(es) : IsPortExpr(es[i])
ExpectedAllowed ==
  {p \in 1..MaxPortNum + 1 : Covered(p, cfgUsed) /\ ~Covered(p, cfgExcluded)}

\* C28: the allowed ports computed at startup are the ports covered by used_ports and
\* not covered by excluded_ports; the validation fails, and the server does not start,
\* when that set is empty or a port expression is invalid.
C28_AllowedPorts ==
  cfgPc # "idle" =>
    /\ (cfgErr # "") = (~AllValid(cfgUsed) \/ ~AllValid(cfgExcluded) \/ ExpectedAllowed = {})
    /\ cfgErr = "" => cfgAllowed = ExpectedAllowed
    /\ cfgErr # "" => cfgPc = "fatal"
    /\ cfgPc = "started" => (cfgErr = "" /\ srvPorts = ExpectedAllowed /\ srvPorts # {})

\* a server started with an excluded port inside used_ports and another outside of it
C28_Witness ==
  /\ cfgPc = "started"
  /\ \E p \in 1..MaxPortNum : Covered(p, cfgUsed) /\ Covered(p, cfgExcluded)
  /\ \E p \in 1..MaxPortNum : ~Covered(p, cfgUsed) /\ Covered(p, cfgExcluded)

\* a configuration turned down because every used port is excluded
C28_WitnessNoPorts ==
  /\ cfgPc = "fatal"
  /\ AllValid(cfgUsed) /\ AllValid(cfgExcluded) /\ cfgUsed # <<>>

(***************************************************************************)
(* Server.Close: the shutdowns of the components run in one errgroup       *)
(***************************************************************************)
MaxUploads == 1

UploadNames == <<"upload1", "upload2", "upload3">>
\* the components Close goes through, in its order; authDB and auditLog may be nil
ServerParts(hasAuthDB, hasAuditLog, uploads) ==
  <<"clientListener", "apiListener">>
    \o (IF hasAuthDB THEN <<"authDB">> ELSE <<>>)
    \o <<"clientDB", "jobProvider", "clientGroupProvider", "uiJobWebSockets">>
    \o (IF hasAuditLog THEN <<"auditLog">> ELSE <<>>)
    \o SubSeq(UploadNames, 1, uploads)

AllParts ==
  {"clientListener", "apiListener", "authDB", "clientDB", "jobProvider",
   "clientGroupProvider", "uiJobWebSockets", "auditLog"}
    \cup {UploadNames[i] : i \in 1..MaxUploads}

\* whether Close starts the next shutdown, as it would be if it stopped at the first
\* failure
StartsNext_UntilFailure(state) == \A c \in DOMAIN state : state[c] # "failed"

\* whether Close starts the next shutdown: wg.Go does not look at the others
StartsNext(state) == TRUE

\* Close is called
ClsCall ==
  /\ clsPc = "idle"
  /\ clsPc' = "go"
  /\ UNCHANGED <<clsParts, clsNext, clsState, clsErr, clsRet, nonClsMore>>

\* wg.Go(component.Close): the shutdown of the next component starts in a goroutine
ClsGo ==
  /\ clsPc = "go"
  /\ clsNext <= Len(clsParts)
  /\ IF StartsNext(clsState)
     THEN clsState' = [clsState EXCEPT ![clsParts[clsNext]] = "closing"]
     ELSE UNCHANGED clsState
  /\ clsNext' = clsNext + 1
  /\ UNCHANGED <<clsParts, clsPc, clsErr, clsRet, nonClsMore>>

\* Close has gone through the components and calls wg.Wait()
ClsWait ==
  /\ clsPc = "go"
  /\ clsNext > Len(clsParts)
  /\ clsPc' = "wait"
  /\ UNCHANGED <<clsParts, clsNext, clsState, clsErr, clsRet, nonClsMore>>

\* the shutdown of a component returns; the group keeps the first error
ClsPartReturns(c, fails) ==
  /\ clsState[c] = "closing"
  /\ clsState' = [clsState EXCEPT ![c] = IF fails THEN "failed" ELSE "ok"]
  /\ clsErr' = IF fails /\ clsErr = "nil" THEN c ELSE clsErr
  /\ UNCHANGED <<clsParts, clsPc, clsNext, clsRet, nonClsMore>>

\* wg.Wait() returns when every goroutine of the group has returned
ClsReturn ==
  /\ clsPc = "wait"
  /\ \A c \in DOMAIN clsState : clsState[c] # "closing"
  /\ clsPc' = "returned"
  /\ clsRet' = clsErr
  /\ UNCHANGED <<clsParts, clsNext, clsState, clsErr, nonClsMore>>

InitClose ==
  /\ OldIdle
  /\ MoreIdleButCls
  /\ \E hasAuthDB \in BOOLEAN, hasAuditLog \in BOOLEAN, uploads \in 0..MaxUploads :
       /\ clsParts = ServerParts(hasAuthDB, hasAuditLog, uploads)
       /\ clsState = [c \in {ServerParts(hasAuthDB, hasAuditLog, uploads)[i] :
                              i \in 1..Len(ServerParts(hasAuthDB, hasAuditLog, uploads))}
                        |-> "-"]
  /\ clsPc = "idle"
  /\ clsNext = 1
  /\ clsErr = "nil"
  /\ clsRet = "-"

NextClose ==
  \/ ClsCall
  \/ ClsGo
  \/ ClsWait
  \/ \E c \in AllParts, fails \in BOOLEAN : c \in DOMAIN clsState /\ ClsPartReturns(c, fails)
  \/ ClsReturn

SpecClose == InitClose /\ [][NextClose]_vars

\* C29: Close starts the shutdown of every component, whether or not another one
\* fails, returns when all of them have returned, and returns an error exactly when
\* a shutdown failed.
C29_CloseAllAndAggregate ==
  /\ clsPc \in {"wait", "returned"} => \A c \in DOMAIN clsState : clsState[c] # "-"
  /\ clsPc = "returned" =>
       /\ \A c \in DOMAIN clsState : clsState[c] \in {"ok", "failed"}
       /\ (clsRet # "nil") = (\E c \in DOMAIN clsState : clsState[c] = "failed")

\* Close returned an error: the client listener failed before the shutdown of the
\* last component had started, and every other component was shut down
C29_Witness ==
  /\ clsPc = "returned"
  /\ clsRet = "clientListener"
  /\ "authDB" \in DOMAIN clsState /\ "upload1" \in DOMAIN clsState
  /\ \A c \in DOMAIN clsState \ {"clientListener"} : clsState[c] = "ok"

(***************************************************************************)
(* UploadManager.HandleUploadRequest: a file pushed to the client.  The    *)
(* calls on the file system are the ones the cases of                      *)
(* TestHandleUploadRequest require of it, in the order the cases build up. *)
(***************************************************************************)
\* the upload requests: whether the destination matches a file_push_deny pattern,
\* ForceWrite, Sync, whether the MD5 of the received content equals Md5Checksum, and
\* whether the existing destination differs from the upload in content, mode or owner
UploadRequests ==
  [deny : BOOLEAN, force : BOOLEAN, sync : BOOLEAN, md5ok : BOOLEAN, changed : BOOLEAN]

\* the calls that change the file system
UpWrites ==
  {"CreateDir:tempdir", "CreateFile:temp", "Remove:temp", "CreateDir:destdir",
   "Remove:dest", "Rename:temp->dest"}

\* the MD5 comparison, as it would be if the checksum were not compared
Md5Matches_Always(r) == TRUE

\* the MD5 of the received content equals the checksum of the request
Md5Matches(r) == r.md5ok

\* the request arrives
UpReceive(r) ==
  /\ upPc = "idle"
  /\ upReq' = [deny |-> r.deny, force |-> r.force, sync |-> r.sync, md5ok |-> r.md5ok,
               changed |-> r.changed, before |-> upFs.dest]
  /\ upPc' = "deny"
  /\ UNCHANGED <<upFs, upOps, upResp, nonUpMore>>

\* the destination is matched against the file_push_deny patterns
UpDeny ==
  /\ upPc = "deny"
  /\ IF upReq.deny
     THEN /\ upResp' = [status |-> "-", err |-> "file_push_deny"]
          /\ upPc' = "done"
     ELSE /\ upPc' = "exist"
          /\ UNCHANGED upResp
  /\ UNCHANGED <<upReq, upFs, upOps, nonUpMore>>

\* Exist(destination): an existing file is left alone without force and sync
UpExist ==
  /\ upPc = "exist"
  /\ upOps' = Append(upOps, "Exist:dest")
  /\ IF upFs.dest # "none" /\ ~upReq.force /\ ~upReq.sync
     THEN /\ upResp' = [status |-> "ignored", err |-> "-"]
          /\ upPc' = "done"
     ELSE /\ upPc' = "copy"
          /\ UNCHANGED upResp
  /\ UNCHANGED <<upReq, upFs, nonUpMore>>

\* the received content is written to the temp file
UpCopy ==
  /\ upPc = "copy"
  /\ upOps' = upOps \o <<"Exist:temp", "CreateDir:tempdir", "CreateFile:temp">>
  /\ upFs' = [upFs EXCEPT !.temp = "received"]
  /\ upPc' = "verify"
  /\ UNCHANGED <<upReq, upResp, nonUpMore>>

\* the MD5 check: on a mismatch the temp file is removed and an error returned
UpVerify ==
  /\ upPc = "verify"
  /\ IF Md5Matches(upReq)
     THEN /\ upPc' = IF upReq.sync /\ upFs.dest # "none" THEN "sync" ELSE "move"
          /\ UNCHANGED <<upFs, upOps, upResp>>
     ELSE /\ upOps' = Append(upOps, "Remove:temp")
          /\ upFs' = [upFs EXCEPT !.temp = "none"]
          /\ upResp' = [status |-> "-", err |-> "md5 check failed"]
          /\ upPc' = "done"
  /\ UNCHANGED <<upReq, nonUpMore>>

\* sync: the existing destination is compared with the upload
UpSync ==
  /\ upPc = "sync"
  /\ IF upReq.changed
     THEN /\ upOps' = upOps \o <<"Open:dest", "GetFileMode:dest", "GetFileOwnerAndGroup:dest">>
          /\ upPc' = "move"
          /\ UNCHANGED <<upFs, upResp>>
     ELSE /\ upOps' = upOps \o <<"Open:dest", "GetFileMode:dest",
                                 "GetFileOwnerAndGroup:dest", "Remove:temp">>
          /\ upFs' = [upFs EXCEPT !.temp = "none"]
          /\ upResp' = [status |-> "ignored", err |-> "-"]
          /\ upPc' = "done"
  /\ UNCHANGED <<upReq, nonUpMore>>

\* the temp file is moved to the destination, an existing destination removed first
UpMove ==
  /\ upPc = "move"
  /\ upOps' = upOps \o <<"CreateDir:destdir">>
                    \o (IF upFs.dest # "none" THEN <<"Remove:dest">> ELSE <<>>)
                    \o <<"Rename:temp->dest">>
  /\ upFs' = [dest |-> upFs.temp, temp |-> "none"]
  /\ upResp' = [status |-> "success", err |-> "-"]
  /\ upPc' = "done"
  /\ UNCHANGED <<upReq, nonUpMore>>

\* the handler is ready for the next request
UpNext ==
  /\ upPc = "done"
  /\ upPc' = "idle"
  /\ upReq' = NoUpload
  /\ upOps' = <<>>
  /\ upResp' = [status |-> "-", err |-> "-"]
  /\ UNCHANGED <<upFs, nonUpMore>>

InitUpload ==
  /\ OldIdle
  /\ MoreIdleButUp
  /\ upReq = NoUpload
  /\ upPc = "idle"
  /\ upFs \in [dest : {"none", "old"}, temp : {"none"}]
  /\ upOps = <<>>
  /\ upResp = [status |-> "-", err |-> "-"]

NextUpload ==
  \/ \E r \in UploadRequests : UpReceive(r)
  \/ UpDeny
  \/ UpExist
  \/ UpCopy
  \/ UpVerify
  \/ UpSync
  \/ UpMove
  \/ UpNext

SpecUpload == InitUpload /\ [][NextUpload]_vars

UpDid(op) == \E i \in DOMAIN upOps : upOps[i] = op
UpWrote == \E i \in DOMAIN upOps : upOps[i] \in UpWrites
UpBefore(a, b) == \E i, j \in DOMAIN upOps : i < j /\ upOps[i] = a /\ upOps[j] = b

C31_WitnessReplaced ==
  /\ upPc = "done"
  /\ upReq.force /\ ~upReq.sync /\ upReq.before = "old"
  /\ upOps = <<"Exist:dest", "Exist:temp", "CreateDir:tempdir", "CreateFile:temp",
               "CreateDir:destdir", "Remove:dest", "Rename:temp->dest">>
  /\ upFs.dest = "received"
  /\ upResp.status = "success"

(***************************************************************************)
(* The life of a job: the three places that send run_cmd and persist the   *)
(* job (handleExecuteCommand, createAndRunJob, createAndRunJobWS), racing  *)
(* with the handler of the client's cmd_result                             *)
(***************************************************************************)
MaxLives == 2

Lives == 1..MaxLives
\* "rest": handleExecuteCommand; "ws": createAndRunJobWS without a MultiJob;
\* "multi": createAndRunJob; "wsmulti": createAndRunJobWS for a child of a MultiJob
LifePaths == {"rest", "ws", "multi", "wsmulti"}
SinglePaths == {"rest", "ws"}
Terminal == {StatusSuccessful, StatusFailed}

\* the handlers persist the job, as it would be if they called SaveJob
PersistNew_Save(s, j) == SaveJob(s, j)

\* al.jobProvider.CreateJob(&curJob)
PersistNew(s, j) == CreateJob(s, j)

\* whether the handler persists a job whose send failed, as it would be if only the
\* WebSocket handler skipped it
SkipsFailed_OnlyWS(path) == path = "ws"

\* whether the handler returns without persisting a job whose send failed:
\* handleExecuteCommand returns after the error response, createAndRunJobWS when
\* multiJobID == nil
SkipsFailed(path) == path \in SinglePaths

\* a request arrives: the job is built with a new jid
JlStart(s, path, isScript) ==
  /\ jl[s].pc = "idle"
  /\ jl' = [jl EXCEPT ![s] = [@ EXCEPT !.path = path, !.pc = "send",
              !.sent = NewJob(s, "c1", IF path \in SinglePaths THEN NoMJ ELSE HandlerJid,
                              isScript, [kind |-> "cmd", client |-> "-"])]]
  /\ UNCHANGED <<jlStore, nonJlMore>>

\* SendRequestAndGetResponse(run_cmd): the client accepts the command or the send
\* fails, with a ClientError or another error
JlSend(s, accepted, clientErr) ==
  /\ jl[s].pc = "send"
  /\ LET r == jl[s] IN
     jl' = [jl EXCEPT ![s] =
       IF accepted
       THEN [r EXCEPT !.cur = JobAccepted(r.sent), !.client = "running", !.pc = "create",
                      !.ret = IF r.path = "rest" THEN "-" ELSE "true"]
       ELSE IF SkipsFailed(r.path)
       THEN [r EXCEPT !.cur = IF r.path = "rest" THEN r.sent ELSE JobSendFailed(r.sent),
                      !.pc = "done",
                      !.resp = IF r.path = "rest"
                               THEN (IF clientErr THEN 409 ELSE 500) ELSE 1,
                      !.ret = IF r.path = "rest" THEN "-" ELSE "false"]
       ELSE [r EXCEPT !.cur = JobSendFailed(r.sent), !.pc = "create",
                      !.resp = IF r.path = "wsmulti" THEN 1 ELSE 0, !.ret = "false"]]
  /\ UNCHANGED <<jlStore, nonJlMore>>

\* CreateJob(&curJob), and for handleExecuteCommand the response with the jid
JlCreate(s) ==
  /\ jl[s].pc = "create"
  /\ jlStore' = PersistNew(jlStore, jl[s].cur)
  /\ LET r == jl[s] IN
     jl' = [jl EXCEPT ![s] = [r EXCEPT !.pc = "done",
              !.found = GetByJID(jlStore, r.cur.clientID, r.cur.jid),
              !.resp = IF r.path = "rest" THEN 200 ELSE r.resp]]
  /\ UNCHANGED nonJlMore

\* the client's cmd_result arrives: SaveJob with the terminal job
JlResult(s, st) ==
  /\ jl[s].client = "running"
  /\ jlStore' = SaveJob(jlStore, JobResult(jl[s].sent, st))
  /\ jl' = [jl EXCEPT ![s] = [@ EXCEPT !.client = "reported"]]
  /\ UNCHANGED nonJlMore

InitLife ==
  /\ OldIdle
  /\ MoreIdleButJl
  /\ jlStore = [k \in {} |-> NoJob]
  /\ jl = [s \in Lives |-> NoLife]

NextLife ==
  \/ \E s \in Lives, path \in LifePaths, isScript \in BOOLEAN : JlStart(s, path, isScript)
  \/ \E s \in Lives, accepted \in BOOLEAN, clientErr \in BOOLEAN : JlSend(s, accepted, clientErr)
  \/ \E s \in Lives : JlCreate(s)
  \/ \E s \in Lives, st \in Terminal : JlResult(s, st)

SpecLife == InitLife /\ [][NextLife]_vars

\* C32: a stored job with a terminal status keeps its status, finished_at and result:
\* create_job for a jid whose cmd_result is already stored leaves the row as the
\* result handler stored it.
C32_TerminalStays ==
  [][\A k \in DOMAIN jlStore :
       jlStore[k].status \in Terminal =>
         /\ k \in DOMAIN jlStore'
         /\ jlStore'[k].status = jlStore[k].status
         /\ jlStore'[k].finishedAt = jlStore[k].finishedAt
         /\ jlStore'[k].result = jlStore[k].result]_vars

\* the result of a job was stored before create_job ran for it: create_job was called
\* with the running job, found the terminal row and the row is still the terminal one
C32_Witness ==
  \E s \in Lives :
    /\ jl[s].pc = "done" /\ jl[s].client = "reported"
    /\ jl[s].cur.status = StatusRunning
    /\ jl[s].found # NotCalled /\ jl[s].found # NoJob
    /\ jl[s].found.status \in Terminal
    /\ jlStore[s] = jl[s].found /\ jlStore[s].result

LoopRunning == IsMulti /\ ~Concurrent /\ dpc \in {"loop", "call", "wait", "uiwait", "end", "del"}

\* C33: every channel obtainable from the done-channel table is open and no result
\* handler sends on a closed channel; the table holds the entry of a MultiJob exactly
\* while its sequential execution is running, and never one of a concurrent MultiJob.
C33_TableChannelsOpen ==
  /\ HandlerJid \in chanTable => chanState = "open"
  /\ ~panicked
  /\ HandlerJid \in chanTable <=> LoopRunning

\* C34: an ACL parsed without error from a non-empty string denies at least one IPv4
\* address.
C34_NeverAllowAll ==
  (aclPc \in {"parsed", "checked"} /\ aclStr # <<>> /\ ~aclRes.err) =>
    \E ip \in CheckIPs : To4(ip) # NilIP /\ CheckAccess(aclRes.acl, ip) = "deny"

\* d.IsPortAllowed(port) and d.IsPortBusy(protocol, port)
IsPortAllowed(port) == port \in allowedPorts
IsPortBusy_Never(pools, protocol, port) == FALSE
IsPortBusy(pools, protocol, port) == port \notin getPool(pools, protocol)

\* C35: every pool is a subset of the allowed ports and every port GetRandomPort
\* returns is allowed; a port returned for a protocol is busy for that protocol until
\* a pool of the protocol is refreshed.
C35_PoolsAllowedAndBusy ==
  /\ \A x \in DOMAIN portsPools : portsPools[x] \subseteq allowedPorts
  /\ (portOp.op = "get" /\ portOp.err = "nil") => IsPortAllowed(portOp.port)
  /\ \A g \in given :
       /\ IsPortAllowed(g[2])
       /\ SubSet(g[1]) \subseteq DOMAIN portsPools
       /\ IsPortBusy(portsPools, g[1], g[2])

\* a port was returned for tcp, then the UDP pool was filled by a call for tcp+udp that
\* returned another port: both are still busy for their protocols
C35_Witness ==
  /\ \E p, q \in allowedPorts :
       /\ p # q
       /\ given = {<<ProtocolTCP, p>>, <<ProtocolTCPUDP, q>>}
       /\ p \in portsPools[ProtocolUDP]
  /\ portOp.op = "get" /\ portOp.proto = ProtocolTCPUDP /\ portOp.probes = {ProtocolUDP}


\* the list ts without its element at position i
WithoutAt(ts, i) == SubSeq(ts, 1, i - 1) \o SubSeq(ts, i + 1, Len(ts))

\* C36: a StartTunnel whose listener fails leaves the tunnel list of the client as it
\* was, with no tunnel of the failed ID or remote in it; a StartTunnel for a remote
\* equal to an existing tunnel returns that tunnel, takes no tunnel ID and leaves the
\* list as it was; TerminateTunnel removes exactly the tunnel of the given ID and
\* keeps the others in their order.
C36_StartAndTerminateFrame ==
  [][/\ \A r \in PutRequests :
          (treq[r].pc = "start" /\ treq'[r].pc = "done") =>
            LET c == treq[r].client
                equal(ts) == {i \in 1..Len(ts) :
                                TunnelEquals(ts[i], treq[r].port, treq[r].remote)}
            IN /\ treq'[r].resp = "start failed" =>
                    /\ Tunnels'[c] = Tunnels[c]
                    /\ equal(Tunnels'[c]) = {}
                    /\ \A i \in 1..Len(Tunnels'[c]) :
                         Tunnels'[c][i].id # tunnelIDAutoIncrement'[c]
               /\ equal(Tunnels[c]) # {} =>
                    /\ treq'[r].resp = "ok"
                    /\ Tunnels' = Tunnels
                    /\ tunnelIDAutoIncrement' = tunnelIDAutoIncrement
                    /\ \E i \in equal(Tunnels[c]) : Tunnels[c][i].id = treq'[r].tid
     /\ \A c \in TunClients :
          (treq' = treq /\ Tunnels'[c] # Tunnels[c]) =>
            \E i \in 1..Len(Tunnels[c]) :
              /\ Tunnels'[c] = WithoutAt(Tunnels[c], i)
              /\ \A j \in 1..Len(Tunnels'[c]) : Tunnels'[c][j].id # Tunnels[c][i].id
    ]_vars

\* a start failed after a tunnel of the same client was created and a second request
\* for the remote of that tunnel was answered with it: the list holds the one tunnel
C36_Witness ==
  \E a, b \in PutRequests :
    /\ a # b
    /\ treq[a].client = treq[b].client
    /\ treq[a].pc = "done" /\ treq[a].resp = "created"
    /\ treq[b].pc = "done" /\ treq[b].resp = "start failed"
    /\ Len(Tunnels[treq[a].client]) = 1
    /\ Tunnels[treq[a].client][1].id = treq[a].tid
    /\ tunnelIDAutoIncrement[treq[a].client] = 2


(***************************************************************************)
(* The client-access middleware: wrapClientAccessMiddleware as defined for *)
(* http.Handler (with the client groups) and for http.HandlerFunc          *)
(***************************************************************************)
\* "handler": wrapClientAccessMiddleware(next http.Handler), which loads the client
\* groups; "func": wrapClientAccessMiddleware(next http.HandlerFunc), which does not
MwDefs == {"handler", "func"}

\* what al.getUserModel gives: a user, an error, or no user and no error
MwUsers == {"user", "error", "nil"}

\* al.getUserModelForAuth(ctx): an error for a failed lookup and for no user
getUserModelForAuth(user) == IF user = "user" THEN "nil" ELSE "error"

\* a request arrives at a route wrapped by the middleware; what each step will meet
\* is fixed here: the route parameter, the user, the client groups, the access check
MwReceive(def, hasID, user, groupsErr, accessErr) ==
  /\ mwPc \in {"idle", "done"}
  /\ mwIn' = [def |-> def, hasID |-> hasID, user |-> user,
              groupsErr |-> groupsErr, accessErr |-> accessErr]
  /\ mwPc' = "param"
  /\ mwErrs' = 0
  /\ mwNext' = 0
  /\ UNCHANGED <<nonMwMore>>

\* if al.insecureForTests { next.ServeHTTP; return }; clientID == "" answers 400
MwParam ==
  /\ mwPc = "param"
  /\ IF insecureForTests THEN mwPc' = "next" /\ mwErrs' = mwErrs
     ELSE IF ~mwIn.hasID THEN mwPc' = "done" /\ mwErrs' = mwErrs + 1
     ELSE mwPc' = "user" /\ mwErrs' = mwErrs
  /\ UNCHANGED <<mwIn, mwNext, nonMwMore>>

\* curUser, err := al.getUserModelForAuth(r.Context())
MwUser ==
  /\ mwPc = "user"
  /\ IF getUserModelForAuth(mwIn.user) # "nil" THEN mwPc' = "done" /\ mwErrs' = mwErrs + 1
     ELSE /\ mwPc' = IF mwIn.def = "handler" THEN "groups" ELSE "access"
          /\ mwErrs' = mwErrs
  /\ UNCHANGED <<mwIn, mwNext, nonMwMore>>

\* clientGroups, err := al.clientGroupProvider.GetAll(r.Context()); the branch of a
\* failed GetAll writes the error and has no return
MwGroups ==
  /\ mwPc = "groups"
  /\ IF mwIn.groupsErr THEN mwPc' = "access" /\ mwErrs' = mwErrs + 1
     ELSE mwPc' = "access" /\ mwErrs' = mwErrs
  /\ UNCHANGED <<mwIn, mwNext, nonMwMore>>

\* err = al.clientService.CheckClientAccess(clientID, curUser, clientGroups)
MwAccess ==
  /\ mwPc = "access"
  /\ IF mwIn.accessErr THEN mwPc' = "done" /\ mwErrs' = mwErrs + 1
     ELSE mwPc' = "next" /\ mwErrs' = mwErrs
  /\ UNCHANGED <<mwIn, mwNext, nonMwMore>>

\* next.ServeHTTP(w, r)
MwServe ==
  /\ mwPc = "next"
  /\ mwNext' = mwNext + 1
  /\ mwPc' = "done"
  /\ UNCHANGED <<mwIn, mwErrs, nonMwMore>>

InitMw ==
  /\ OldIdle
  /\ MoreIdleButMw
  /\ MwIdle

NextMw ==
  \/ \E def \in MwDefs, user \in MwUsers, hasID, groupsErr, accessErr \in BOOLEAN :
        MwReceive(def, hasID, user, groupsErr, accessErr)
  \/ MwParam
  \/ MwUser
  \/ MwGroups
  \/ MwAccess
  \/ MwServe

SpecMw == InitMw /\ [][NextMw]_vars

\* a step the request has passed through failed
MwStepFailed ==
  \/ ~mwIn.hasID
  \/ getUserModelForAuth(mwIn.user) # "nil"
  \/ mwIn.def = "handler" /\ mwIn.groupsErr
  \/ mwIn.accessErr

\* C37: the wrapped handler is invoked only when the route parameter was present,
\* the user resolved, the client groups loaded and CheckClientAccess returned ok;
\* when a step fails, exactly one error response is written and the wrapped handler
\* is not invoked.
C37_HandlerOnlyAfterEveryStep ==
  /\ mwNext > 0 => ~MwStepFailed /\ mwErrs = 0
  /\ mwErrs <= 1
  /\ (mwPc = "done" /\ MwStepFailed) => mwErrs = 1 /\ mwNext = 0


\* the run_cmd requests sent for children of a MultiJob
SentChildren == {i \in DOMAIN sentCmd : sentCmd[i] # NoJob /\ sentCmd[i].multiJobID = HandlerJid}

\* C39: for a multi-client script dispatch, on the REST /scripts path and on the
\* WebSocket path, the script is pushed to every resolved target before a MultiJob is
\* persisted or a run_cmd is sent, a failed push aborts the whole request, and every
\* child Job sent carries is_script = true and, as its command, the remote script
\* path recorded for its own client.
C39_ScriptPushedThenSent ==
  IsScriptPath =>
    /\ (DOMAIN multiJobs # {} \/ SentChildren # {}) =>
         /\ Len(pushes) = N
         /\ \A i \in 1..N : pushes[i] = ordered[i] /\ ordered[i] \in cmdMap
    /\ (\E i \in 1..Len(pushes) : pushes[i] \notin cmdMap) =>
         /\ hpc = "rejected"
         /\ DOMAIN multiJobs = {}
         /\ \A i \in DOMAIN sentCmd : sentCmd[i] = NoJob
    /\ \A i \in SentChildren :
         /\ sentCmd[i].isScript
         /\ sentCmd[i].command = [kind |-> "path", client |-> ordered[i]]

====
